---- MODULE Spec2Model ----
(***************************************************************************)
(* A model of the numerical core of StimulusClampProtocol.cpp: the         *)
(* reference resampler (sampleArray), the range indexer                    *)
(* (findIndexesInRange), the pulse synthesiser (Stimulus::waveform), the   *)
(* epoch builder and the epoch interning of StimulusClampProtocol::init,   *)
(* the cost function, and the Monte Carlo generator with its               *)
(* dwell-to-probability sampler.                                           *)
(*                                                                         *)
(* Numbers.  Every time, coordinate and amplitude of the model is an       *)
(* integer number of resolution units.  The tolerance epsilon of the code  *)
(* (5 machine epsilons, or 1e-5 of the smallest grid spacing) is a         *)
(* positive amount smaller than one unit: it is kept as half a unit and    *)
(* the comparisons of the code are written out on doubled values by        *)
(* Below and Near.  Quotients are kept as exact fractions.                 *)
(*                                                                         *)
(* Arrays are functions on 0..n-1, as in the source.                       *)
(***************************************************************************)
EXTENDS Integers, Sequences, FiniteSets, TLC

VARIABLES sa, fr, wf, sim, mc, protocols, uniqueEpochs, heap, lastCost, cond, run, sm, ss

vars == <<sa, fr, wf, sim, mc, protocols, uniqueEpochs, heap, lastCost, cond, run, sm, ss>>

\* the session of a StimulusClampProtocolSimulator
session == <<protocols, uniqueEpochs, heap, lastCost>>

\* what the stages of a run hold: the condition matrices under init and the
\* threads of runSimulation, the summary under normalisation, the spectral
\* simulation
stages == <<cond, run, sm, ss>>

(***************************************************************************)
(* Bounds of the model.                                                    *)
(***************************************************************************)
MaxN == 3          \* longest sim grid handed to sampleArray
MaxNref == 3       \* longest reference column handed to sampleArray
MaxCoord == 3      \* largest grid coordinate, in resolution units
MaxGridN == 4      \* longest uniform sample grid
MaxRepeats == 3    \* largest repetition count of a stimulus pulse
MaxCols == 2       \* most columns of a condition matrix

Coords == 0..MaxCoord
YVals == {0, 2}        \* reference ordinates
Shifts == {0, 1}         \* x0 of a reference curve
SessionSizes == {1, 2}   \* numbers of protocols of a session

(***************************************************************************)
(* Arithmetic helpers.                                                     *)
(***************************************************************************)
Abs(a) == IF a < 0 THEN -a ELSE a

\* twice the tolerance epsilon, in resolution units (epsilon is half a unit)
Epsilon2 == 1

\* a < b - epsilon
Below(a, b) == 2 * a < 2 * b - Epsilon2

\* fabs(a - b) < epsilon
Near(a, b) == 2 * Abs(a - b) < Epsilon2

\* a > epsilon
AboveEps(a) == 2 * a > Epsilon2

\* an exact fraction num/den, den > 0
Frac(num, den) == [num |-> num, den |-> den]
Whole(v) == Frac(v, 1)
FracEq(p, q) == p.num * q.den = q.num * p.den
FracLess(p, q) == p.num * q.den < q.num * p.den
FracAdd(p, q) == Frac(p.num * q.den + q.num * p.den, p.den * q.den)
FracSub(p, q) == Frac(p.num * q.den - q.num * p.den, p.den * q.den)
FracMul(p, q) == Frac(p.num * q.num, p.den * q.den)
\* p / q; a zero divisor gives a zero denominator (not a finite number)
FracDiv(p, q) ==
    IF q.num < 0 THEN Frac(-(p.num * q.den), -(p.den * q.num))
    ELSE Frac(p.num * q.den, p.den * q.num)

Arrays(n, S) == [0..(n - 1) -> S]
Len0(a) == Cardinality(DOMAIN a)
Increasing(a) == \A k \in DOMAIN a : (k + 1) \in DOMAIN a => a[k] < a[k + 1]
Decreasing(a) == \A k \in DOMAIN a : (k + 1) \in DOMAIN a => a[k] > a[k + 1]
Monotonic(a) == Increasing(a) \/ Decreasing(a)

(***************************************************************************)
(* sampleArray: y(x) from yref(xref - x0), one loop iteration per step.    *)
(* sa.assigned is the set of sim indexes the call has written.             *)
(***************************************************************************)
SaIdle ==
    [pc |-> "idle", xref |-> <<>>, yref |-> <<>>, nref |-> 0, x |-> <<>>, y |-> <<>>,
     n |-> 0, x0 |-> 0, i |-> 0, iref |-> 0, di |-> 1, diref |-> 1,
     isIncreasing |-> TRUE, firstPt |-> -1, numPts |-> 0, assigned |-> {}]

\* the caller's buffers: monotonic x and xref, y zeroed (line 774)
SaCall(xr, yr, xs, s) ==
    [SaIdle EXCEPT !.pc = "call", !.xref = xr, !.yref = yr, !.nref = Len0(xr),
                   !.x = xs, !.n = Len0(xs), !.x0 = s,
                   !.y = [k \in DOMAIN xs |-> Whole(0)]]

\* lines 94-107
SaEnter(f) ==
    LET inc == ~(f.n >= 2 /\ f.x[1] - f.x[0] < 0)
        incRef == ~(f.nref >= 2 /\ f.xref[1] - f.xref[0] < 0)
    IN [f EXCEPT !.pc = "loop", !.firstPt = -1, !.numPts = 0,
                 !.isIncreasing = inc,
                 !.i = IF inc THEN 0 ELSE f.n - 1,
                 !.iref = IF incRef THEN 0 ELSE f.nref - 1,
                 !.di = IF inc THEN 1 ELSE -1,
                 !.diref = IF incRef THEN 1 ELSE -1]

\* line 108
SaInLoop(f) == f.pc = "loop" /\ f.i >= 0 /\ f.i < f.n /\ f.iref >= 0 /\ f.iref < f.nref

\* lines 115-116, 127-128
SaFirst(f) == IF f.firstPt = -1 THEN f.i ELSE f.firstPt

\* line 109
SaBeforeRef(f) == Below(f.x[f.i], f.xref[f.iref] - f.x0)

\* line 113
SaOnRef(f) == Near(f.x[f.i], f.xref[f.iref] - f.x0)

\* line 121
SaBracketed(f) ==
    LET jref == f.iref + f.diref
    IN /\ jref >= 0 /\ jref < f.nref
       /\ f.xref[jref] - f.x0 > f.x[f.i]

\* lines 110-112: the sample lies before the current reference point
SaSkip(f) == [f EXCEPT !.i = f.i + f.di]

\* lines 114-118: the sample is on the current reference point
SaExact(f) ==
    [f EXCEPT !.y[f.i] = Whole(f.yref[f.iref]),
              !.assigned = f.assigned \cup {f.i},
              !.firstPt = SaFirst(f),
              !.i = f.i + f.di,
              !.iref = f.iref + f.diref]

\* lines 120-131 when the next reference point brackets the sample
SaInterpolate(f) ==
    LET jref == f.iref + f.diref
        dx == f.xref[jref] - f.xref[f.iref]
        dy == f.yref[jref] - f.yref[f.iref]
    IN [f EXCEPT !.y[f.i] = Frac(f.yref[f.iref] * dx
                                   + dy * (f.x[f.i] - (f.xref[f.iref] - f.x0)), dx),
                 !.assigned = f.assigned \cup {f.i},
                 !.firstPt = SaFirst(f),
                 !.i = f.i + f.di,
                 !.iref = jref]

\* lines 120-121, 131 when it does not
SaAdvanceRef(f) == [f EXCEPT !.iref = f.iref + f.diref]

\* lines 109-132: one iteration of the loop
SaIteration(f) ==
    IF SaBeforeRef(f) THEN SaSkip(f)
    ELSE IF SaOnRef(f) THEN SaExact(f)
    ELSE IF SaBracketed(f) THEN SaInterpolate(f)
    ELSE SaAdvanceRef(f)

\* lines 134-141
SaCountOffByOne(f) == IF f.isIncreasing THEN f.i - f.firstPt ELSE f.firstPt - f.i - 1
SaCount(f) == IF f.isIncreasing THEN f.i - f.firstPt ELSE f.firstPt - f.i

SaReturn(f) ==
    IF f.firstPt # -1
    THEN [f EXCEPT !.pc = "done",
                   !.numPts = SaCount(f),
                   !.firstPt = IF f.isIncreasing THEN f.firstPt ELSE f.i + 1]
    ELSE [f EXCEPT !.pc = "done"]

\* the whole call, lines 94-141
RECURSIVE SaLoop(_)
SaLoop(f) == IF SaInLoop(f) THEN SaLoop(SaIteration(f)) ELSE SaReturn(f)

SampleArrayResult(xr, yr, xs, s) == SaLoop(SaEnter(SaCall(xr, yr, xs, s)))

\* sampleArray step by step
SA_Enter ==
    /\ sa.pc = "call"
    /\ sa' = SaEnter(sa)

SA_Skip ==
    /\ SaInLoop(sa)
    /\ SaBeforeRef(sa)
    /\ sa' = SaSkip(sa)

SA_Exact ==
    /\ SaInLoop(sa)
    /\ ~SaBeforeRef(sa) /\ SaOnRef(sa)
    /\ sa' = SaExact(sa)

SA_Interpolate ==
    /\ SaInLoop(sa)
    /\ ~SaBeforeRef(sa) /\ ~SaOnRef(sa) /\ SaBracketed(sa)
    /\ sa' = SaInterpolate(sa)

SA_AdvanceRef ==
    /\ SaInLoop(sa)
    /\ ~SaBeforeRef(sa) /\ ~SaOnRef(sa) /\ ~SaBracketed(sa)
    /\ sa' = SaAdvanceRef(sa)

SA_Return ==
    /\ sa.pc = "loop"
    /\ ~SaInLoop(sa)
    /\ sa' = SaReturn(sa)

sampleArray == SA_Enter \/ SA_Skip \/ SA_Exact \/ SA_Interpolate \/ SA_AdvanceRef \/ SA_Return

(***************************************************************************)
(* Claims about sampleArray.                                               *)
(***************************************************************************)
SaDone == sa.pc = "done"

\* the shifted reference abscissa of reference index r
SaShifted(r) == sa.xref[r] - sa.x0

\* the linear interpolation of sim sample i between reference points r and r2
SaLinear(i, r, r2) ==
    Frac(sa.yref[r] * (sa.xref[r2] - sa.xref[r])
           + (sa.yref[r2] - sa.yref[r]) * (sa.x[i] - SaShifted(r)),
         sa.xref[r2] - sa.xref[r])

\* C6: round trip. When the reference abscissas are the sim grid itself and
\* x0 = 0, a finished call returns firstPt = 0 and numPts = N and has written
\* y[i] = yref[i] at every index.
C6_RoundTrip ==
    (SaDone /\ sa.xref = sa.x /\ sa.x0 = 0) =>
        /\ sa.firstPt = 0
        /\ sa.numPts = sa.n
        /\ sa.assigned = 0..(sa.n - 1)
        /\ \A i \in 0..(sa.n - 1) : FracEq(sa.y[i], Whole(sa.yref[i]))

C6_Witness ==
    /\ SaDone /\ sa.xref = sa.x /\ sa.x0 = 0
    /\ sa.n = MaxN /\ ~sa.isIncreasing
    /\ sa.yref[0] # sa.yref[1]

\* C7: every sim sample that lies strictly between two consecutive shifted
\* reference points has been assigned the linear interpolation of that pair
\* when the call is finished (several sim samples between the same pair are
\* each interpolated from it).
C7_InterpolatedBetween ==
    SaDone =>
        \A i \in 0..(sa.n - 1) : \A r \in 0..(sa.nref - 1) :
            LET r2 == r + sa.diref
            IN (/\ r2 >= 0 /\ r2 < sa.nref
                /\ SaShifted(r) < sa.x[i]
                /\ sa.x[i] < SaShifted(r2))
                   => /\ i \in sa.assigned
                      /\ FracEq(sa.y[i], SaLinear(i, r, r2))

\* C8: the returned window is exactly the set of assigned sim indexes:
\* firstPt = -1 and numPts = 0 when nothing was assigned, and otherwise
\* firstPt is the lowest assigned index and [firstPt, firstPt + numPts) are
\* the assigned indexes.
C8_WindowIsAssigned ==
    SaDone =>
        IF sa.assigned = {}
        THEN sa.firstPt = -1 /\ sa.numPts = 0
        ELSE sa.assigned = sa.firstPt..(sa.firstPt + sa.numPts - 1)


(***************************************************************************)
(* The index-selection rule shared by findIndexesInRange and               *)
(* Stimulus::waveform: the closest grid index to a target, advanced by one *)
(* when the closest sample lies below the target.                          *)
(***************************************************************************)
\* (time.array() - target).abs().minCoeff(&closestIndex): the first index of
\* the smallest distance
ClosestIndex(time, target) ==
    CHOOSE c \in DOMAIN time :
        /\ \A k \in DOMAIN time : Abs(time[c] - target) <= Abs(time[k] - target)
        /\ \A k \in DOMAIN time : k < c => Abs(time[k] - target) > Abs(time[c] - target)

\* lines 72-75, 77-80, 227-230, 232-235
FirstIndexAt(time, target) ==
    LET c == ClosestIndex(time, target)
    IN IF Below(time[c], target) THEN c + 1 ELSE c

(***************************************************************************)
(* findIndexesInRange                                                      *)
(***************************************************************************)
FrIdle == [pc |-> "idle", time |-> <<>>, start |-> 0, stop |-> 0, firstPt |-> -1, numPts |-> 0]

\* lines 67-82
FindIndexesInRangeResult(time, start, stop) ==
    LET firstPt == FirstIndexAt(time, start)
    IN IF firstPt < Len0(time)
       THEN [firstPt |-> firstPt, numPts |-> FirstIndexAt(time, stop) - firstPt]
       ELSE [firstPt |-> firstPt, numPts |-> 0]

findIndexesInRange ==
    /\ fr.pc = "call"
    /\ LET r == FindIndexesInRangeResult(fr.time, fr.start, fr.stop)
       IN fr' = [fr EXCEPT !.pc = "done", !.firstPt = r.firstPt, !.numPts = r.numPts]

\* C9: findIndexesInRange never returns a negative count: numPts is
\* max(0, endPt - firstPt) for the closest-then-advance indexes of start and stop.
C9_CountNotNegative ==
    fr.pc = "done" =>
        LET firstPt == FirstIndexAt(fr.time, fr.start)
            endPt == FirstIndexAt(fr.time, fr.stop)
        IN /\ fr.numPts >= 0
           /\ fr.numPts = IF endPt - firstPt > 0 THEN endPt - firstPt ELSE 0

(***************************************************************************)
(* Stimulus::waveform                                                      *)
(***************************************************************************)
\* time = LinSpaced(n, start, start + (n - 1) * dt)
Grid(n, start, dt) == [i \in 0..(n - 1) |-> start + i * dt]

\* expression strings of a pulse: none, the local time, one that fails to evaluate
Exprs == {"", "t", "?"}

\* parser.eval(expr) over the shared variable t (pulseTime): the values, or
\* throw set when the evaluation raises
EvalExpr(expr, pulseTime) ==
    IF expr = "t" THEN [throw |-> FALSE, value |-> pulseTime]
    ELSE [throw |-> TRUE, value |-> <<>>]

WfIdle == [pc |-> "idle", time |-> <<>>, stimulus |-> <<>>, waveform |-> <<>>]

\* lines 241-246, 250-255: segment(first, num) += eval(expr) * amplitude, an
\* evaluation error swallowed
AddExpr(w, time, first, num, origin, expr, amplitude) ==
    LET pulseTime == [k \in 0..(num - 1) |-> time[first + k] - origin]
        v == EvalExpr(expr, pulseTime)
    IN IF v.throw THEN w
       ELSE [i \in DOMAIN w |->
                IF i >= first /\ i < first + num
                THEN w[i] + v.value[i - first] * amplitude
                ELSE w[i]]

\* line 260: segment(first, num) += Constant(num, amplitude)
AddSquareOneShort(w, first, num, amplitude) ==
    [i \in DOMAIN w |-> IF i >= first /\ i < first + num - 1 THEN w[i] + amplitude ELSE w[i]]

AddSquare(w, first, num, amplitude) ==
    [i \in DOMAIN w |-> IF i >= first /\ i < first + num THEN w[i] + amplitude ELSE w[i]]

\* lines 224-262: one repetition added to the waveform w
AddRepetition(w, time, st, rep) ==
    LET onsetTime == st.start + rep * st.period
        offsetTime == onsetTime + st.duration
        firstOnsetPt == FirstIndexAt(time, onsetTime)
    IN IF firstOnsetPt < Len0(time)
       THEN LET firstOffsetPt == FirstIndexAt(time, offsetTime)
                numOnsetPts == firstOffsetPt - firstOnsetPt
                numOffsetPts == Len0(time) - firstOffsetPt
            IN IF st.onsetExpr # "" \/ st.offsetExpr # ""
               THEN LET w1 == IF numOnsetPts > 0 /\ st.onsetExpr # ""
                              THEN AddExpr(w, time, firstOnsetPt, numOnsetPts, onsetTime,
                                           st.onsetExpr, st.amplitude)
                              ELSE w
                    IN IF numOffsetPts > 0 /\ st.offsetExpr # ""
                       THEN AddExpr(w1, time, firstOffsetPt, numOffsetPts, offsetTime,
                                    st.offsetExpr, st.amplitude)
                       ELSE w1
               ELSE IF numOnsetPts > 0
                    THEN AddSquare(w, firstOnsetPt, numOnsetPts, st.amplitude)
                    ELSE w
       ELSE w

\* line 223: the repetitions rep = 0 .. repeats - 1 in order
RECURSIVE Repetitions(_, _, _, _)
Repetitions(w, time, st, rep) ==
    IF rep < st.repeats
    THEN Repetitions(AddRepetition(w, time, st, rep), time, st, rep + 1)
    ELSE w

\* lines 218-265
Waveform(time, st) ==
    LET zero == [i \in DOMAIN time |-> 0]
    IN IF AboveEps(st.duration) /\ AboveEps(Abs(st.amplitude))
       THEN Repetitions(zero, time, st, 0)
       ELSE zero

waveform ==
    /\ wf.pc = "call"
    /\ wf' = [wf EXCEPT !.pc = "done", !.waveform = Waveform(wf.time, wf.stimulus)]

\* the parsed condition values of one Stimulus in one grid cell
Stimulus(start, duration, amplitude, repeats, period, onsetExpr, offsetExpr) ==
    [start |-> start, duration |-> duration, amplitude |-> amplitude, repeats |-> repeats,
     period |-> period, onsetExpr |-> onsetExpr, offsetExpr |-> offsetExpr]

\* C10: a square pulse (both expressions empty, duration > epsilon,
\* |amplitude| > epsilon) on a uniform increasing grid is, at every sample i,
\* amplitude times the number of repetitions k in [0, repeats) with
\* start + k*period <= time[i] < start + k*period + duration.
C10_Precondition ==
    /\ wf.pc = "done"
    /\ wf.stimulus.onsetExpr = "" /\ wf.stimulus.offsetExpr = ""
    /\ AboveEps(wf.stimulus.duration) /\ AboveEps(Abs(wf.stimulus.amplitude))

C10_SquarePulse ==
    C10_Precondition =>
        \A i \in DOMAIN wf.time :
            wf.waveform[i] =
                wf.stimulus.amplitude *
                    Cardinality({k \in 0..(wf.stimulus.repeats - 1) :
                        /\ wf.stimulus.start + k * wf.stimulus.period <= wf.time[i]
                        /\ wf.time[i] < wf.stimulus.start + k * wf.stimulus.period
                                           + wf.stimulus.duration})

\* two overlapping repetitions add up at some sample, and one starts after the grid
C10_Witness ==
    /\ C10_Precondition
    /\ \E i \in DOMAIN wf.time : wf.waveform[i] = 2 * wf.stimulus.amplitude
    /\ \E i \in DOMAIN wf.time : wf.waveform[i] = 0
    /\ \E k \in 0..(wf.stimulus.repeats - 1) :
          wf.stimulus.start + k * wf.stimulus.period > wf.time[Len0(wf.time) - 1]

(***************************************************************************)
(* Simulation::findEpochsDiscretizedToSamplePoints.  The epoch list is a   *)
(* sequence: epochs[k + 1] here is epochs[k] of the source.                *)
(***************************************************************************)
Last(q) == q[Len(q)]
ReplaceLast(q, e) == [q EXCEPT ![Len(q)] = e]

RECURSIVE SumOver(_, _)
SumOver(q, field) == IF q = <<>> THEN 0 ELSE Head(q)[field] + SumOver(Tail(q), field)

\* lines 272-275, 283-286: the epoch opened at sample i with the stimuli there
OpenEpoch(time, stimuli, i) ==
    [start |-> time[i], duration |-> 0, firstPt |-> i, numPts |-> 0,
     stimuli |-> [name \in DOMAIN stimuli |-> stimuli[name][i]],
     uniqueEpoch |-> 0]

\* lines 281-282, 292-293
CloseEpochOneShort(e, end, endPt) ==
    [e EXCEPT !.duration = end - e.start, !.numPts = endPt - e.firstPt - 1]

CloseEpoch(e, end, endPt) ==
    [e EXCEPT !.duration = end - e.start, !.numPts = endPt - e.firstPt]

\* every channel changes between samples i - 1 and i
StimulusChangesAll(stimuli, i) ==
    \A name \in DOMAIN stimuli : stimuli[name][i] # stimuli[name][i - 1]

\* line 280: some channel changes between samples i - 1 and i
StimulusChanges(stimuli, i) ==
    \E name \in DOMAIN stimuli : stimuli[name][i] # stimuli[name][i - 1]

\* lines 278-291
RECURSIVE EpochScan(_, _, _, _)
EpochScan(epochs, time, stimuli, i) ==
    IF i >= Len0(time) THEN epochs
    ELSE IF StimulusChanges(stimuli, i)
         THEN EpochScan(Append(ReplaceLast(epochs, CloseEpoch(Last(epochs), time[i], i)),
                               OpenEpoch(time, stimuli, i)),
                        time, stimuli, i + 1)
         ELSE EpochScan(epochs, time, stimuli, i + 1)

\* lines 270-293
FindEpochs(time, endTime, stimuli) ==
    LET scanned == EpochScan(<<OpenEpoch(time, stimuli, 0)>>, time, stimuli, 1)
    IN ReplaceLast(scanned, CloseEpoch(Last(scanned), endTime, Len0(time)))

SimIdle == [pc |-> "idle", time |-> <<>>, endTime |-> 0, stimuli |-> <<>>, epochs |-> <<>>]

findEpochsDiscretizedToSamplePoints ==
    /\ sim.pc = "call"
    /\ sim' = [sim EXCEPT !.pc = "done",
                          !.epochs = FindEpochs(sim.time, sim.endTime, sim.stimuli)]

\* C1: after findEpochsDiscretizedToSamplePoints the epochs partition the sample
\* grid: the first starts at sample 0, each next one starts where the one
\* before ends, every epoch starts at the time of its first sample, the
\* numPts add up to N and the durations to endTime - time[0].
C1_EpochsPartition ==
    sim.pc = "done" =>
        /\ Len(sim.epochs) >= 1
        /\ sim.epochs[1].firstPt = 0
        /\ \A k \in 1..(Len(sim.epochs) - 1) :
               sim.epochs[k + 1].firstPt = sim.epochs[k].firstPt + sim.epochs[k].numPts
        /\ \A k \in 1..Len(sim.epochs) :
               /\ sim.epochs[k].firstPt \in DOMAIN sim.time
               /\ sim.epochs[k].start = sim.time[sim.epochs[k].firstPt]
        /\ SumOver(sim.epochs, "numPts") = Len0(sim.time)
        /\ SumOver(sim.epochs, "duration") = sim.endTime - sim.time[0]

\* the samples of epoch e
EpochSamples(e) == {i \in DOMAIN sim.time : i >= e.firstPt /\ i < e.firstPt + e.numPts}

\* C21: after findEpochsDiscretizedToSamplePoints every channel has, at every
\* sample of an epoch, the value of the epoch's snapshot, and between the last
\* sample of an epoch and the first sample of the next some channel differs:
\* an epoch opens at sample i >= 1 exactly if some channel differs between
\* i - 1 and i
C21_MaximalConstantRuns ==
    sim.pc = "done" =>
        /\ \A k \in 1..Len(sim.epochs) :
               /\ DOMAIN sim.epochs[k].stimuli = DOMAIN sim.stimuli
               /\ \A i \in EpochSamples(sim.epochs[k]) : \A name \in DOMAIN sim.stimuli :
                      sim.stimuli[name][i] = sim.epochs[k].stimuli[name]
        /\ \A i \in DOMAIN sim.time \ {0} :
               (\E k \in 1..Len(sim.epochs) : sim.epochs[k].firstPt = i)
                   <=> (\E name \in DOMAIN sim.stimuli :
                           sim.stimuli[name][i] # sim.stimuli[name][i - 1])

\* three epochs of two channels; at the first boundary only V changes, at the
\* second only L, and the last epoch holds two samples
C21_Witness ==
    /\ sim.pc = "done"
    /\ Len(sim.epochs) = 3
    /\ DOMAIN sim.stimuli = {"V", "L"}
    /\ sim.epochs[1].stimuli["L"] = sim.epochs[2].stimuli["L"]
    /\ sim.epochs[2].stimuli["V"] = sim.epochs[3].stimuli["V"]
    /\ sim.epochs[3].numPts = 2

\* three epochs on a grid that does not start at 0 and ends between samples
C1_Witness ==
    /\ sim.pc = "done"
    /\ Len(sim.epochs) >= 3
    /\ sim.time[0] # 0
    /\ sim.endTime > sim.time[Len0(sim.time) - 1]

(***************************************************************************)
(* StimulusClampProtocol::init.  A protocol holds its parsed and padded    *)
(* condition matrices (functions of row and column), its Stimulus and      *)
(* ReferenceData children and, once initialised, its grid of Simulations.  *)
(* The protocols of the model have no SimulationsSummary children.  An     *)
(* Epoch* is an address of the heap; 0 is no address.                      *)
(***************************************************************************)
\* the state names the model provider hands out (line 1063)
StateNames == <<"S0", "S1">>

\* names kept as they are written
AsWritten(name) == name

\* QString::toLower on the names of the model
ToLower(name) ==
    CASE name = "Weight" -> "weight"
      [] name = "Mask" -> "mask"
      [] OTHER -> name

MapPut(map, key, value) ==
    [k \in DOMAIN map \cup {key} |-> IF k = key THEN value ELSE map[k]]

AddArrays(a, b) == [i \in DOMAIN a |-> a[i] + b[i]]

\* lines 693-694: the sample times of a cell
SimTime(start, duration, sampleInterval) ==
    Grid(1 + (duration \div sampleInterval), start, sampleInterval)

\* lines 702-713: the waveforms of the active Stimulus children, in order, added
\* to the weight, to the mask or to the channel of their name
RECURSIVE AddStimuli(_, _, _, _, _, _)
AddStimuli(acc, children, k, time, row, col) ==
    IF k > Len(children) THEN acc
    ELSE LET child == children[k]
             Added(w) ==
                 IF ToLower(child.name) = "weight"
                 THEN [acc EXCEPT !.weight = AddArrays(acc.weight, w)]
                 ELSE IF ToLower(child.name) = "mask"
                 THEN [acc EXCEPT !.mask = AddArrays(acc.mask, w)]
                 ELSE IF child.name \in DOMAIN acc.stimuli
                 THEN [acc EXCEPT !.stimuli[child.name] =
                                      AddArrays(acc.stimuli[child.name], w)]
                 ELSE [acc EXCEPT !.stimuli = MapPut(acc.stimuli, child.name, w)]
         IN AddStimuli(IF ~child.active THEN acc
                       ELSE Added(Waveform(time, child.conditions[row][col])),
                       children, k + 1, time, row, col)

\* lines 721-727: the first Epoch of the pool with the same stimuli map, 0 if none
RECURSIVE FindUniqueFrom(_, _, _, _)
FindUniqueFrom(pool, objects, stimuli, k) ==
    IF k > Len(pool) THEN 0
    ELSE IF objects[pool[k]].stimuli = stimuli THEN pool[k]
    ELSE FindUniqueFrom(pool, objects, stimuli, k + 1)

FindUniqueLastOnly(pool, objects, stimuli) ==
    IF pool # <<>> /\ objects[Last(pool)].stimuli = stimuli THEN Last(pool) ELSE 0

FindUnique(pool, objects, stimuli) == FindUniqueFrom(pool, objects, stimuli, 1)

\* new Epoch: the lowest address that holds no live object
Alloc(objects) ==
    CHOOSE a \in DOMAIN objects :
        /\ ~objects[a].live
        /\ \A b \in DOMAIN objects : b < a => objects[b].live

\* lines 719-733: st = [epochs, pool, heap], epoch k and the following ones interned
RECURSIVE InternEpochs(_, _)
InternEpochs(st, k) ==
    IF k > Len(st.epochs) THEN st
    ELSE LET found == FindUnique(st.pool, st.heap, st.epochs[k].stimuli)
             fresh == Alloc(st.heap)
         IN IF found # 0
            THEN InternEpochs([st EXCEPT !.epochs[k].uniqueEpoch = found], k + 1)
            ELSE InternEpochs(
                     [st EXCEPT !.epochs[k].uniqueEpoch = fresh,
                                !.heap[fresh] = [live |-> TRUE,
                                                 stimuli |-> st.epochs[k].stimuli],
                                !.pool = Append(st.pool, fresh)],
                     k + 1)

\* a Simulation as the vector's resize creates it
NewSimulation ==
    [time |-> <<>>, endTime |-> 0, weight |-> <<>>, mask |-> <<>>, stimuli |-> <<>>,
     epochs |-> <<>>, probability |-> <<>>, waveforms |-> <<>>, events |-> <<>>,
     referenceData |-> <<>>]

\* simulations.resize keeps the Simulations it already holds (lines 684-688)
OldSimulation(p, row, col) ==
    IF row \in DOMAIN p.simulations /\ col \in DOMAIN p.simulations[row]
    THEN p.simulations[row][col]
    ELSE NewSimulation

\* lines 688-753 for the cell (row, col); st = [sims, pool, heap]
InitCell(p, row, col, st) ==
    LET endTime == p.starts[row][col] + p.durations[row][col]
        Interned(time, acc, interned) ==
            [sims |-> Append(st.sims,
                             [OldSimulation(p, row, col) EXCEPT
                                 !.probability = <<>>, !.waveforms = <<>>,
                                 !.time = time, !.endTime = endTime,
                                 !.weight = acc.weight,
                                 !.stimuli = acc.stimuli,
                                 !.mask = [i \in DOMAIN time |-> acc.mask[i] = 0],
                                 !.epochs = interned.epochs,
                                 !.referenceData = <<>>]),
             pool |-> interned.pool, heap |-> interned.heap]
        Waveforms(time, acc) ==
            Interned(time, acc,
                     InternEpochs([epochs |-> FindEpochs(time, endTime, acc.stimuli),
                                   pool |-> st.pool, heap |-> st.heap], 1))
        Sampled(time) ==
            Waveforms(time,
                      AddStimuli([weight |-> [i \in DOMAIN time |-> p.weights[row][col]],
                                  mask |-> [i \in DOMAIN time |-> 0], stimuli |-> <<>>],
                                 p.stimuli, 1, time, row, col))
    IN Sampled(SimTime(p.starts[row][col], p.durations[row][col],
                       p.sampleIntervals[row][col]))

\* lines 685-755: the cells in row-major order from cell number j on
RECURSIVE InitCells(_, _, _, _, _)
InitCells(p, rows, cols, j, st) ==
    IF j >= rows * cols THEN st
    ELSE InitCells(p, rows, cols, j + 1, InitCell(p, j \div cols, j % cols, st))

\* the aligned curve left at the length of the time grid
WholeWaveform(y, firstPt, numPts) == y

\* lines 790-806: the aligned curve kept for the cost
Segment(y, firstPt, numPts) == [k \in 0..(numPts - 1) |-> y[firstPt + k]]

RECURSIVE Extreme(_, _, _, _)
Extreme(w, k, best, wantMax) ==
    IF k \notin DOMAIN w THEN best
    ELSE Extreme(w, k + 1,
                 IF (wantMax /\ FracLess(best, w[k])) \/ (~wantMax /\ FracLess(w[k], best))
                 THEN w[k] ELSE best,
                 wantMax)

MaxCoeff(w) == Extreme(w, 1, w[0], TRUE)
MinCoeff(w) == Extreme(w, 1, w[0], FALSE)
FracAbs(q) == Frac(Abs(q.num), q.den)

\* lines 792-803
Normalized(w, normalization, scale) ==
    LET divisor == CASE normalization = "ToMax" -> MaxCoeff(w)
                     [] normalization = "ToMin" -> MinCoeff(w)
                     [] normalization = "ToAbsMinMax" ->
                            IF ~FracLess(FracAbs(MaxCoeff(w)), FracAbs(MinCoeff(w)))
                            THEN MaxCoeff(w) ELSE MinCoeff(w)
                     [] OTHER -> Whole(1)
        n == IF normalization = "None" THEN w
             ELSE [k \in DOMAIN w |-> FracDiv(w[k], divisor)]
    IN IF scale # 1 THEN [k \in DOMAIN n |-> FracMul(n[k], Whole(scale))] ELSE n

\* sim.referenceData.resize(varSet + 1) and the store of line 805
PutRefData(referenceData, varSet, name, refData) ==
    LET grown == [v \in 1..(IF Len(referenceData) <= varSet THEN varSet + 1
                           ELSE Len(referenceData)) |->
                     IF v <= Len(referenceData) THEN referenceData[v] ELSE <<>>]
    IN [grown EXCEPT ![varSet + 1] = MapPut(grown[varSet + 1], name, refData)]

\* lines 769-806 for the column pair i of the ReferenceData child ref
AlignPair(sims, cols, ref, i) ==
    LET j == ref.rowIndex * cols + ref.columnIndex + i + 1
        cell == sims[j]
        grown == IF Len(cell.referenceData) <= ref.variableSetIndex
                 THEN [v \in 1..(ref.variableSetIndex + 1) |->
                          IF v <= Len(cell.referenceData) THEN cell.referenceData[v] ELSE <<>>]
                 ELSE cell.referenceData
        Aligned(f) ==
            IF f.numPts > 0
            THEN [sims EXCEPT ![j].referenceData =
                     PutRefData(cell.referenceData, ref.variableSetIndex, ref.name,
                                [firstPt |-> f.firstPt, numPts |-> f.numPts,
                                 waveform |-> Normalized(Segment(f.y, f.firstPt, f.numPts),
                                                         ref.normalization, ref.scale),
                                 weight |-> ref.weight])]
            ELSE [sims EXCEPT ![j].referenceData = grown]
    IN Aligned(SampleArrayResult(ref.columnPairsXY[i + 1].x, ref.columnPairsXY[i + 1].y,
                                 cell.time, ref.x0))

\* line 768
RECURSIVE AlignPairs(_, _, _, _)
AlignPairs(sims, cols, ref, i) ==
    IF i < Len(ref.columnPairsXY) /\ ref.columnIndex + i < cols
    THEN AlignPairs(AlignPair(sims, cols, ref, i), cols, ref, i + 1)
    ELSE sims

\* lines 762-810
RECURSIVE AlignReferenceData(_, _, _, _, _)
AlignReferenceData(sims, rows, cols, refs, k) ==
    IF k > Len(refs) THEN sims
    ELSE AlignReferenceData(
             IF refs[k].rowIndex < rows THEN AlignPairs(sims, cols, refs[k], 0) ELSE sims,
             rows, cols, refs, k + 1)

\* lines 603-811: the protocol initialised against the pool; [protocol, pool, heap]
ProtocolInit(p, pool, objects) ==
    LET rows == Len0(p.starts)
        cols == Len0(p.starts[0])
        Referenced(cells, sims) ==
            [protocol |-> [p EXCEPT !.stateNames = StateNames,
                                    !.simulations =
                                        [r \in 0..(rows - 1) |->
                                            [c \in 0..(cols - 1) |-> sims[r * cols + c + 1]]]],
             pool |-> cells.pool,
             heap |-> cells.heap]
        Simulated(cells) ==
            Referenced(cells, AlignReferenceData(cells.sims, rows, cols, p.referenceData, 1))
    IN Simulated(InitCells(p, rows, cols, 0,
                           [sims |-> <<>>, pool |-> pool, heap |-> objects]))

\* the active Stimulus children of p whose name satisfies the test, as indexes
ActiveChildren(p, names) ==
    {k \in 1..Len(p.stimuli) : p.stimuli[k].active /\ p.stimuli[k].name \in names}

\* the waveforms of the children S of p added up at sample i of the cell
RECURSIVE WaveformSum(_, _, _, _)
WaveformSum(p, S, cell, i) ==
    IF S = {} THEN 0
    ELSE LET k == CHOOSE k \in S : TRUE
         IN  Waveform(cell.time, p.stimuli[k].conditions[0][0])[i]
             + WaveformSum(p, S \ {k}, cell, i)

ReservedNames == {"weight", "Weight", "mask", "Mask"}
WeightNames == {"weight", "Weight"}

IsInitialised(p) == p.simulations # <<>>

\* C24: after init the stimuli map of a Simulation has a channel for exactly
\* the names of the active stimuli other than weight and mask, each channel
\* is the sum of the waveforms of the active stimuli of its name whatever
\* their order, the epochs carry the same channels, and sim.weight is the
\* weight of the cell plus the waveforms of the active weight stimuli
C24_ReservedStimuli ==
    \A j \in 1..Len(protocols) :
        IsInitialised(protocols[j]) =>
            LET p == protocols[j]
                cell == p.simulations[0][0]
            IN  /\ DOMAIN cell.stimuli \cap ReservedNames = {}
                /\ DOMAIN cell.stimuli =
                       {p.stimuli[k].name : k \in ActiveChildren(p, {"V", "L"})}
                /\ \A name \in DOMAIN cell.stimuli : \A i \in DOMAIN cell.time :
                       cell.stimuli[name][i] =
                           WaveformSum(p, ActiveChildren(p, {name}), cell, i)
                /\ \A k \in 1..Len(cell.epochs) :
                       DOMAIN cell.epochs[k].stimuli = DOMAIN cell.stimuli
                /\ \A i \in DOMAIN cell.time :
                       cell.weight[i] =
                           p.weights[0][0] + WaveformSum(p, ActiveChildren(p, WeightNames), cell, i)

\* two active V pulses around an active Weight pulse: one channel, the weight
\* raised by the pulse, and no epoch boundary where only the weight changes
C24_Witness ==
    /\ Len(protocols) = 1
    /\ IsInitialised(protocols[1])
    /\ protocols[1].stimuli[1].name = "V" /\ protocols[1].stimuli[1].active
    /\ protocols[1].stimuli[2].name = "Weight" /\ protocols[1].stimuli[2].active
    /\ protocols[1].stimuli[3].name = "V" /\ protocols[1].stimuli[3].active
    /\ DOMAIN protocols[1].simulations[0][0].stimuli = {"V"}
    /\ protocols[1].simulations[0][0].weight[1] = 2
    /\ protocols[1].simulations[0][0].stimuli["V"][2] = 3

(***************************************************************************)
(* StimulusClampProtocol::cost                                             *)
(***************************************************************************)
\* stateNames.indexOf(name), -1 when absent
RECURSIVE IndexOfFrom(_, _, _)
IndexOfFrom(names, name, k) ==
    IF k > Len(names) THEN -1
    ELSE IF names[k] = name THEN k - 1
    ELSE IndexOfFrom(names, name, k + 1)

\* a lookup that tries the stimuli before the states
GetSimulationWaveformStimulusFirst(p, name, cell, v) ==
    LET stateIndex == IndexOfFrom(p.stateNames, name, 1)
        none == [found |-> FALSE, y |-> <<>>]
    IN IF name \in DOMAIN cell.stimuli
       THEN [found |-> TRUE, y |-> [i \in DOMAIN cell.time |-> Whole(cell.stimuli[name][i])]]
       ELSE IF stateIndex # -1 /\ Len(cell.probability) > v
       THEN [found |-> TRUE,
             y |-> [i \in DOMAIN cell.time |-> cell.probability[v + 1][i][stateIndex]]]
       ELSE IF Len(cell.waveforms) > v /\ name \in DOMAIN cell.waveforms[v + 1]
       THEN [found |-> TRUE, y |-> cell.waveforms[v + 1][name]]
       ELSE none

\* lines 856-880: the simulated buffer of that name, as [found, y]
GetSimulationWaveform(p, name, cell, v) ==
    LET stateIndex == IndexOfFrom(p.stateNames, name, 1)
        none == [found |-> FALSE, y |-> <<>>]
    IN IF stateIndex # -1
       THEN IF Len(cell.probability) > v
            THEN [found |-> TRUE,
                  y |-> [i \in DOMAIN cell.time |-> cell.probability[v + 1][i][stateIndex]]]
            ELSE none
       ELSE IF name \in DOMAIN cell.stimuli
            THEN [found |-> TRUE, y |-> [i \in DOMAIN cell.time |-> Whole(cell.stimuli[name][i])]]
       ELSE IF Len(cell.waveforms) > v /\ name \in DOMAIN cell.waveforms[v + 1]
            THEN [found |-> TRUE, y |-> cell.waveforms[v + 1][name]]
       ELSE none

\* line 830: sum of (data - ref)^2 * weight over the window, times the curve's weight
RECURSIVE SquaresFrom(_, _, _, _)
SquaresFrom(y, cell, refData, k) ==
    IF k >= refData.numPts THEN Whole(0)
    ELSE LET d == FracSub(y[refData.firstPt + k], refData.waveform[k])
         IN FracAdd(FracMul(FracMul(d, d), Whole(cell.weight[refData.firstPt + k])),
                    SquaresFrom(y, cell, refData, k + 1))

CurveCostUnweighted(p, cell, v, name) ==
    LET refData == cell.referenceData[v + 1][name]
        Matched(buffer) ==
            IF refData.numPts > 0 /\ buffer.found /\ Len0(cell.time) > 0
            THEN SquaresFrom(buffer.y, cell, refData, 0)
            ELSE Whole(0)
    IN Matched(GetSimulationWaveform(p, name, cell, v))

\* lines 821-832
CurveCost(p, cell, v, name) ==
    LET refData == cell.referenceData[v + 1][name]
        Matched(buffer) ==
            IF refData.numPts > 0 /\ buffer.found /\ Len0(cell.time) > 0
            THEN FracMul(SquaresFrom(buffer.y, cell, refData, 0), Whole(refData.weight))
            ELSE Whole(0)
    IN Matched(GetSimulationWaveform(p, name, cell, v))

RECURSIVE SumCosts(_, _, _, _)
SumCosts(p, cell, v, names) ==
    IF names = {} THEN Whole(0)
    ELSE LET name == CHOOSE x \in names : TRUE
         IN FracAdd(CurveCost(p, cell, v, name), SumCosts(p, cell, v, names \ {name}))

RECURSIVE SimulationCost(_, _, _)
SimulationCost(p, cell, v) ==
    IF v >= Len(cell.referenceData) THEN Whole(0)
    ELSE FracAdd(SumCosts(p, cell, v, DOMAIN cell.referenceData[v + 1]),
                 SimulationCost(p, cell, v + 1))

RECURSIVE CellsCost(_, _, _)
CellsCost(p, cols, j) ==
    IF j >= Len0(p.simulations) * cols THEN Whole(0)
    ELSE FracAdd(SimulationCost(p, p.simulations[j \div cols][j % cols], 0),
                 CellsCost(p, cols, j + 1))

\* lines 815-851
ProtocolCost(p) ==
    IF Len0(p.simulations) = 0 THEN Whole(0)
    ELSE CellsCost(p, Len0(p.simulations[0]), 0)

(***************************************************************************)
(* StimulusClampProtocolSimulator                                          *)
(***************************************************************************)
\* lines 1067-1068: the protocols k.. initialised in order; st = [protocols, pool, heap]
RECURSIVE InitProtocols(_, _)
InitProtocols(st, k) ==
    IF k > Len(st.protocols) THEN st
    ELSE LET Initialised(r) ==
                 [protocols |-> [st.protocols EXCEPT ![k] = r.protocol],
                  pool |-> r.pool, heap |-> r.heap]
         IN InitProtocols(Initialised(ProtocolInit(st.protocols[k], st.pool, st.heap)),
                          k + 1)

\* lines 1064-1065: delete every Epoch of the pool
DeleteAll(pool, objects) ==
    [a \in DOMAIN objects |->
        IF \E k \in 1..Len(pool) : pool[k] = a
        THEN [objects[a] EXCEPT !.live = FALSE]
        ELSE objects[a]]

\* the loops of lines 1064-1068 without the clear() of the pool between them
initSimulationKeepingPool ==
    /\ \E r \in {InitProtocols([protocols |-> protocols, pool |-> uniqueEpochs,
                                   heap |-> DeleteAll(uniqueEpochs, heap)], 1)} :
          /\ protocols' = r.protocols
          /\ uniqueEpochs' = r.pool
          /\ heap' = r.heap
    /\ lastCost' = [protocol |-> 0, value |-> Whole(0)]

\* lines 1061-1069
initSimulation ==
    /\ \E r \in {InitProtocols([protocols |-> protocols, pool |-> <<>>,
                                   heap |-> DeleteAll(uniqueEpochs, heap)], 1)} :
          /\ protocols' = r.protocols
          /\ uniqueEpochs' = r.pool
          /\ heap' = r.heap
    /\ lastCost' = [protocol |-> 0, value |-> Whole(0)]

\* StimulusClampProtocol::cost() of protocol k, its value kept in lastCost
cost ==
    \E k \in 1..Len(protocols) :
        /\ lastCost' = [protocol |-> k, value |-> ProtocolCost(protocols[k])]
        /\ UNCHANGED <<protocols, uniqueEpochs, heap>>

\* a protocol as loaded, before its first init
Protocol(starts, durations, sampleIntervals, weights, stimuli, referenceData) ==
    [starts |-> starts, durations |-> durations, sampleIntervals |-> sampleIntervals,
     weights |-> weights, stimuli |-> stimuli, referenceData |-> referenceData,
     stateNames |-> <<>>, simulations |-> <<>>]

\* the heap before any Epoch is allocated
Addrs == 1..(Cardinality(SessionSizes) * MaxCols * (MaxGridN + 1))
EmptyHeap == [a \in Addrs |-> [live |-> FALSE, stimuli |-> <<>>]]
NoCost == [protocol |-> 0, value |-> Whole(0)]

\* the epochs of the session's simulations, as <<protocol, row, column, epoch>>
EpochSlots ==
    UNION {UNION {UNION {{<<p, r, c, k>> :
                            k \in 1..Len(protocols[p].simulations[r][c].epochs)} :
                         c \in DOMAIN protocols[p].simulations[r]} :
                  r \in DOMAIN protocols[p].simulations} :
           p \in 1..Len(protocols)}

EpochAt(slot) == protocols[slot[1]].simulations[slot[2]][slot[3]].epochs[slot[4]]

\* C2: after initSimulation two epochs of any simulations have the same
\* uniqueEpoch pointer if and only if their stimuli maps are equal, and the
\* pool holds no two entries with equal stimuli maps.
C2_InternedIffEqual ==
    /\ \A a \in EpochSlots : \A b \in EpochSlots :
           (EpochAt(a).uniqueEpoch = EpochAt(b).uniqueEpoch)
               <=> (EpochAt(a).stimuli = EpochAt(b).stimuli)
    /\ \A i \in 1..Len(uniqueEpochs) : \A j \in 1..Len(uniqueEpochs) :
           i # j => /\ uniqueEpochs[i] # uniqueEpochs[j]
                    /\ heap[uniqueEpochs[i]].stimuli # heap[uniqueEpochs[j]].stimuli

\* C28: after every initSimulation, the first and the repeated ones, the
\* uniqueEpoch pointer of every Epoch of every simulation is an entry of the
\* pool and refers to an Epoch that is not deleted, and every entry of the
\* pool is the uniqueEpoch of some Epoch of some simulation
C28_PoolAndPointers ==
    /\ \A a \in EpochSlots :
           /\ \E k \in 1..Len(uniqueEpochs) : uniqueEpochs[k] = EpochAt(a).uniqueEpoch
           /\ heap[EpochAt(a).uniqueEpoch].live
    /\ \A k \in 1..Len(uniqueEpochs) :
           /\ heap[uniqueEpochs[k]].live
           /\ \E a \in EpochSlots : EpochAt(a).uniqueEpoch = uniqueEpochs[k]

\* a repeated initSimulation has left a pool of two or more entries for a
\* protocol whose simulations are those of its properties, and an Epoch that
\* the call before had in its pool is deleted
C28_Witness ==
    /\ Len(uniqueEpochs) >= 2
    /\ EpochSlots # {}
    /\ \A k \in 1..Len(protocols) :
           Len0(protocols[k].simulations[0]) = Len0(protocols[k].starts[0])
    /\ \E a \in DOMAIN heap :
           /\ ~heap[a].live
           /\ heap[a].stimuli # <<>>

\* two protocols share an entry of a pool of three or more, and it is not the
\* entry the pool ends with
C2_Witness ==
    /\ Len(uniqueEpochs) >= 3
    /\ \E a \in EpochSlots : \E b \in EpochSlots :
           /\ a[1] # b[1]
           /\ EpochAt(a).uniqueEpoch = EpochAt(b).uniqueEpoch
           /\ EpochAt(a).uniqueEpoch # Last(uniqueEpochs)

\* the protocol with one value of a simulated stimulus buffer replaced
WithStimulusValue(p, r, c, name, i, v) ==
    [p EXCEPT !.simulations[r][c].stimuli[name][i] = v]

\* the protocol with one value of an aligned reference curve replaced
WithReferenceValue(p, r, c, vs, name, k, v) ==
    [p EXCEPT !.simulations[r][c].referenceData[vs][name].waveform[k] = Whole(v)]

\* C5: masked samples (sim.mask false) are excluded from the cost: cost()
\* returns the same value whatever the simulated and the reference values
\* are at the masked sample indexes.
C5_MaskedExcluded ==
    lastCost.protocol # 0 =>
        LET p == protocols[lastCost.protocol]
        IN \A r \in DOMAIN p.simulations : \A c \in DOMAIN p.simulations[r] :
             LET cell == p.simulations[r][c]
             IN \A i \in DOMAIN cell.time : \A v \in {0, 1, 5} :
                  ~cell.mask[i] =>
                    /\ \A name \in DOMAIN cell.stimuli :
                          FracEq(ProtocolCost(WithStimulusValue(p, r, c, name, i, v)),
                                 lastCost.value)
                    /\ \A vs \in 1..Len(cell.referenceData) :
                         \A name \in DOMAIN cell.referenceData[vs] :
                            LET k == i - cell.referenceData[vs][name].firstPt
                            IN k \in DOMAIN cell.referenceData[vs][name].waveform =>
                                 FracEq(ProtocolCost(
                                            WithReferenceValue(p, r, c, vs, name, k, v)),
                                        lastCost.value)

\* lines 1426-1432: the costs of the protocols k.. added up
RECURSIVE SimulatorCost(_, _)
SimulatorCost(ps, k) ==
    IF k > Len(ps) THEN Whole(0)
    ELSE FracAdd(ProtocolCost(ps[k]), SimulatorCost(ps, k + 1))

\* StimulusClampProtocolSimulator::cost(), its value kept in lastCost under
\* protocol -1
simulatorCost ==
    /\ lastCost' = [protocol |-> -1, value |-> SimulatorCost(protocols, 1)]
    /\ UNCHANGED <<protocols, uniqueEpochs, heap>>

\* the protocol initialised again with the weight of its reference j multiplied by k
Reweighted(p, j, k) ==
    ProtocolInit([p EXCEPT !.referenceData[j].weight = k * @], uniqueEpochs, heap).protocol

\* what reference j adds to the cost of the protocol: the cost less the cost
\* without it
Contribution(p, j) == FracSub(ProtocolCost(p), ProtocolCost(Reweighted(p, j, 0)))

RECURSIVE Contributions(_, _)
Contributions(p, j) ==
    IF j > Len(p.referenceData) THEN Whole(0)
    ELSE FracAdd(Contribution(p, j), Contributions(p, j + 1))

\* sum over the window of (sim_k - ref_k)^2 * simWeight_k, times refWeight
WeightedSquares(y, cell, refData) ==
    LET S[k \in 0..refData.numPts] ==
            IF k = 0 THEN Whole(0)
            ELSE FracAdd(S[k - 1],
                         FracMul(FracMul(FracSub(y[refData.firstPt + k - 1],
                                                 refData.waveform[k - 1]),
                                         FracSub(y[refData.firstPt + k - 1],
                                                 refData.waveform[k - 1])),
                                 Whole(cell.weight[refData.firstPt + k - 1])))
    IN FracMul(S[refData.numPts], Whole(refData.weight))

Factors == {0, 2, 3}

States == {0, 1}
Lifetimes == {1, 2}
RunCounts == {1, 2}

\* the most chains the vector of a variable set holds
ChainCap == CHOOSE m \in RunCounts : \A r \in RunCounts : r <= m

\* a < epsilon
BelowEps(a) == 2 * a < Epsilon2

McIdle ==
    [pc |-> "idle", time |-> <<>>, endTime |-> 0, epochs |-> <<>>, rates |-> <<>>,
     events |-> <<>>, probability |-> <<>>, abort |-> FALSE,
     numRuns |-> 0, prevNumRuns |-> 0, sampleRuns |-> FALSE, run |-> 0,
     state |-> -1, eventChainDuration |-> 0, epochIter |-> 1, QT |-> 0,
     kout |-> 0, lifetime |-> 0, epochChanged |-> FALSE,
     numVariableSets |-> 1, variableSetIndex |-> 0, accumulateRuns |-> FALSE,
     rest |-> <<>>]

\* uniqueEpoch->transitionRates of an epoch: the states that state leaves to
Targets(f, epoch, state) == f.rates[f.epochs[epoch].stimuli["V"]][state]

\* -transitionRates.coeff(state, state), lines 397 and 408
Kout(f, epoch, state) == Cardinality(Targets(f, epoch, state))

\* a lifetime that is drawn for every state
LifetimeDrawn(f, kout, drawn) == drawn

\* lines 398 and 414: the whole endTime for a state that is not left
Lifetime(f, kout, drawn) == IF BelowEps(kout) THEN f.endTime ELSE drawn

\* sim.events: mc.events is the vector of the variable set of the call
\* (eventChains, line 344), mc.rest holds the vectors of the other variable
\* sets and nothing in the place of that one
SimEvents(f) ==
    [v \in 1..Len(f.rest) |-> IF v = f.variableSetIndex + 1 THEN f.events ELSE f.rest[v]]

\* lines 342-343: events.resize(1 + variableSetIndex) of a shorter vector
ResizedEvents(events, variableSetIndex) ==
    IF Len(events) <= variableSetIndex
    THEN events \o [k \in 1..(1 + variableSetIndex - Len(events)) |-> <<>>]
    ELSE events

KeptChainsNever(eventChains, accumulateRuns) == <<>>

\* lines 345-346
KeptChains(eventChains, accumulateRuns) ==
    IF accumulateRuns THEN eventChains ELSE <<>>

\* lines 341-353; the simulator starts no simulation once abort is set (line 1113)
MC_Call ==
    /\ mc.pc \in {"idle", "done"}
    /\ ~mc.abort
    /\ \E numRuns \in RunCounts, accumulateRuns \in BOOLEAN, sampleRuns \in BOOLEAN,
          variableSetIndex \in 0..(mc.numVariableSets - 1) :
          \E events \in {ResizedEvents(SimEvents(mc), variableSetIndex)} :
            \E kept \in {KeptChains(events[variableSetIndex + 1], accumulateRuns)} :
             /\ Len(events[variableSetIndex + 1]) + numRuns <= ChainCap
             /\ mc' = [mc EXCEPT !.pc = "run",
                                 !.variableSetIndex = variableSetIndex,
                                 !.accumulateRuns = accumulateRuns,
                                 !.rest = [events EXCEPT ![variableSetIndex + 1] = <<>>],
                                 !.events = kept \o [k \in 1..numRuns |-> <<>>],
                                 !.prevNumRuns = Len(kept), !.numRuns = numRuns,
                                 !.sampleRuns = sampleRuns, !.run = Len(kept),
                                 !.state = -1, !.eventChainDuration = 0,
                                 !.epochIter = 1, !.QT = 0, !.kout = 0,
                                 !.lifetime = 0, !.epochChanged = FALSE]

\* lines 354-379: the head of the run loop and the choice of the starting state
MC_StartRun ==
    /\ mc.pc = "run"
    /\ IF mc.run >= mc.prevNumRuns + mc.numRuns
       THEN mc' = [mc EXCEPT !.pc = IF mc.sampleRuns THEN "sample" ELSE "done"]
       ELSE IF mc.abort
       THEN mc' = [mc EXCEPT !.pc = "returned"]
       ELSE \E s \in States :
               mc' = [mc EXCEPT !.pc = "chain", !.state = s, !.eventChainDuration = 0,
                                !.epochIter = 1, !.QT = 1]

\* lines 380-399: the head of the chain loop and the lifetime in the state
MC_Dwell ==
    /\ mc.pc = "chain"
    /\ IF ~(mc.eventChainDuration < mc.endTime)
       THEN mc' = [mc EXCEPT !.pc = "run", !.run = @ + 1]
       ELSE IF mc.abort
       THEN mc' = [mc EXCEPT !.pc = "returned"]
       ELSE LET kout == Kout(mc, mc.epochIter, mc.state)
            IN \E drawn \in Lifetimes :
                  mc' = [mc EXCEPT !.pc = "cross", !.kout = kout,
                                   !.lifetime = Lifetime(mc, kout, drawn),
                                   !.epochChanged = FALSE]

\* line 400: the event takes the chain past the end of the current epoch
Crossing(f) ==
    /\ f.epochIter <= Len(f.epochs)
    /\ f.eventChainDuration + f.lifetime
          > f.epochs[f.epochIter].start + f.epochs[f.epochIter].duration

\* lines 400-416: one iteration of the epoch-crossing loop
MC_Cross ==
    /\ mc.pc = "cross"
    /\ Crossing(mc)
    /\ LET e == mc.epochs[mc.epochIter]
           truncated == e.start + e.duration - mc.eventChainDuration
           next == mc.epochIter + 1
       IN IF next > Len(mc.epochs)
          THEN mc' = [mc EXCEPT !.lifetime = truncated, !.epochIter = next]
          ELSE LET kout == Kout(mc, next, mc.state)
               IN \E drawn \in Lifetimes :
                     mc' = [mc EXCEPT !.epochIter = next, !.kout = kout,
                                      !.lifetime = truncated + Lifetime(mc, kout, drawn),
                                      !.epochChanged = TRUE]

\* lines 439-447: the states the walk over column event.state of QT can select
NextStates(f, QT, state) ==
    IF Targets(f, QT, state) = {} THEN {state} ELSE Targets(f, QT, state)

\* line 419: the remaining time
FinalDuration(f) == f.endTime - f.eventChainDuration

\* lines 417-448: the event is added to the chain and the next state selected
MC_Emit ==
    /\ mc.pc = "cross"
    /\ ~Crossing(mc)
    /\ IF mc.epochIter > Len(mc.epochs)
       THEN mc' = [mc EXCEPT !.pc = "run", !.run = @ + 1,
                             !.events[mc.run + 1] =
                                 Append(@, [state |-> mc.state,
                                            duration |-> FinalDuration(mc)])]
       ELSE LET QT == IF mc.epochChanged THEN mc.epochIter ELSE mc.QT
                duration == mc.eventChainDuration + mc.lifetime
            IN \E s \in (IF duration < mc.endTime
                         THEN NextStates(mc, QT, mc.state) ELSE {mc.state}) :
                  mc' = [mc EXCEPT !.pc = "chain", !.QT = QT,
                                   !.events[mc.run + 1] =
                                       Append(@, [state |-> mc.state,
                                                  duration |-> mc.lifetime]),
                                   !.eventChainDuration = duration,
                                   !.state = s]

\* P.setZero(numPts, numStates), line 462
ZeroP(time) == [t \in DOMAIN time |-> [s \in States |-> Whole(0)]]

\* lines 477-479 and 491-493: on to the next sample interval
NextInterval(st, time, endTime) ==
    [st EXCEPT !.t = st.t + 1,
               !.sampleIntervalStart = st.sampleIntervalEnd,
               !.sampleIntervalEnd = IF st.t + 2 < Len0(time) THEN time[st.t + 2]
                                     ELSE endTime]

\* lines 483-486 and 497-500: on to the next event, if there is one
NextEvent(st, chain) ==
    IF st.k + 1 > Len(chain) THEN [st EXCEPT !.k = st.k + 1]
    ELSE [st EXCEPT !.k = st.k + 1,
                    !.eventStart = st.eventEnd,
                    !.eventEnd = st.eventEnd + chain[st.k + 1].duration]

\* lines 471-502: the loop over the sample intervals and the events of a chain
RECURSIVE SampleChain(_, _, _, _)
SampleChain(st, time, endTime, chain) ==
    IF ~(st.t < Len0(time) /\ st.k <= Len(chain)) THEN st.P
    ELSE LET event == chain[st.k]
             sampleInterval == Whole(st.sampleIntervalEnd - st.sampleIntervalStart)
             Credit(q) == [st EXCEPT !.P[st.t][event.state] = FracAdd(@, q)]
         IN IF st.eventStart <= st.sampleIntervalStart
                 /\ st.eventEnd >= st.sampleIntervalEnd
            THEN SampleChain(NextInterval(Credit(Whole(1)), time, endTime),
                             time, endTime, chain)
            ELSE IF st.eventStart <= st.sampleIntervalStart
            THEN SampleChain(NextEvent(Credit(FracDiv(
                                 Whole(st.eventEnd - st.sampleIntervalStart),
                                 sampleInterval)), chain),
                             time, endTime, chain)
            ELSE IF st.eventEnd >= st.sampleIntervalEnd
            THEN SampleChain(NextInterval(Credit(FracDiv(
                                 Whole(st.sampleIntervalEnd - st.eventStart),
                                 sampleInterval)), time, endTime),
                             time, endTime, chain)
            ELSE SampleChain(NextEvent(Credit(FracDiv(Whole(event.duration),
                                                      sampleInterval)), chain),
                             time, endTime, chain)

\* line 469: the time the first event of a chain starts at
EventOrigin(time) == 0

\* lines 464-470: the chain is walked from its first event and from sample 0.
\* For an empty chain line 470 reads the duration of an event that is not
\* there; whatever the read gives, the loop ends before it uses eventEnd.
SampleStart(P, time, endTime, chain) ==
    [P |-> P, t |-> 0, k |-> 1,
     sampleIntervalStart |-> time[0],
     sampleIntervalEnd |-> IF 1 >= Len0(time) THEN endTime ELSE time[1],
     eventStart |-> EventOrigin(time),
     eventEnd |-> IF chain = <<>> THEN EventOrigin(time)
                  ELSE EventOrigin(time) + chain[1].duration]

\* line 463: the chains from chain k on
RECURSIVE SampleChains(_, _, _, _, _)
SampleChains(P, time, endTime, eventChains, k) ==
    IF k > Len(eventChains) THEN P
    ELSE SampleChains(SampleChain(SampleStart(P, time, endTime, eventChains[k]),
                                  time, endTime, eventChains[k]),
                      time, endTime, eventChains, k + 1)

\* lines 459-505; with abort set the loop returns at line 472 the first time
\* it is entered and P stays as setZero left it
GetProbabilityFromEventChains(time, endTime, eventChains, abort) ==
    IF abort THEN ZeroP(time)
    ELSE LET P == SampleChains(ZeroP(time), time, endTime, eventChains, 1)
         IN [t \in DOMAIN P |->
                [s \in States |-> FracDiv(P[t][s], Whole(Len(eventChains)))]]

\* lines 451-456
MC_Sample ==
    /\ mc.pc = "sample"
    /\ mc' = [mc EXCEPT !.pc = "done",
                        !.probability = GetProbabilityFromEventChains(
                                            mc.time, mc.endTime, mc.events, mc.abort)]

monteCarloSimulation ==
    MC_Call \/ MC_StartRun \/ MC_Dwell \/ MC_Cross \/ MC_Emit \/ MC_Sample

\* StimulusClampProtocolSimulator::_abort, lines 1434-1436, while a simulation runs
Abort ==
    /\ mc.pc \in {"run", "chain", "cross", "sample"}
    /\ ~mc.abort
    /\ mc' = [mc EXCEPT !.abort = TRUE]

\* the durations of a chain added up
ChainDuration(chain) == SumOver(chain, "duration")

\* lines 1021-1024: another StimulusClampProtocolSimulator is constructed, with
\* abort cleared, over the protocols whose simulation returned on abort;
\* sim.events is left as the call left it (init clears probability and
\* waveforms only, lines 690-691)
NewSimulator ==
    /\ mc.pc = "returned"
    /\ mc.abort
    /\ mc' = [mc EXCEPT !.pc = "idle", !.abort = FALSE]

\* no call of monteCarloSimulation is under way
BetweenCalls == mc.pc \in {"idle", "done", "returned"}

\* every chain of every variable set has events, and they add up to endTime
StoredChainsComplete ==
    \A v \in 1..Len(SimEvents(mc)) : \A k \in 1..Len(SimEvents(mc)[v]) :
        /\ SimEvents(mc)[v][k] # <<>>
        /\ ChainDuration(SimEvents(mc)[v][k]) = mc.endTime

\* C26: between calls of monteCarloSimulation, calls that returned on abort
\* included, every stored chain has events and its durations add up to
\* endTime, and the sampler is never handed a chain without events
C26_StoredChainsComplete ==
    /\ BetweenCalls => StoredChainsComplete
    /\ (mc.pc = "sample" /\ ~mc.abort) => \A k \in 1..Len(mc.events) : mc.events[k] # <<>>

\* the same while no call has returned on abort
C26_WithoutAbort == (BetweenCalls /\ ~mc.abort) => StoredChainsComplete

\* the sum of a row of P
RowSum(row) == FracAdd(row[0], row[1])

Finite(q) == q.den # 0

\* C14: a monteCarloSimulation call with numRuns = n on a variable set that
\* holds m chains leaves, when it completes without abort, m + n chains of
\* which the first m are those it found if accumulateRuns is set, and exactly
\* n chains otherwise; the chains of the other variable sets stay as they are.
C14_AccumulateOrReplace ==
    [][/\ (mc.pc \in {"idle", "done"} /\ mc'.pc = "run") =>
            LET found == ResizedEvents(SimEvents(mc), mc'.variableSetIndex)
                m == Len(found[mc'.variableSetIndex + 1])
            IN /\ Len(mc'.events) = (IF mc'.accumulateRuns THEN m ELSE 0) + mc'.numRuns
               /\ mc'.prevNumRuns = (IF mc'.accumulateRuns THEN m ELSE 0)
               /\ mc'.accumulateRuns =>
                     \A i \in 1..m : mc'.events[i] = found[mc'.variableSetIndex + 1][i]
               /\ \A v \in 1..Len(found) :
                     v # mc'.variableSetIndex + 1 => SimEvents(mc')[v] = found[v]
               /\ \A v \in 1..Len(SimEvents(mc)) : SimEvents(mc)[v] = found[v]
       /\ (mc.pc \in {"run", "chain", "cross", "sample"} /\ ~mc'.abort) =>
            /\ Len(mc'.events) = Len(mc.events)
            /\ \A i \in 1..mc.prevNumRuns : mc'.events[i] = mc.events[i]
            /\ mc'.rest = mc.rest
            /\ mc'.variableSetIndex = mc.variableSetIndex
            /\ mc'.prevNumRuns = mc.prevNumRuns
            /\ mc'.numRuns = mc.numRuns]_vars

\* a call that accumulates has completed without abort on a variable set that
\* held a chain, while the other variable set holds chains too
C14_Witness ==
    /\ mc.pc = "done"
    /\ ~mc.abort
    /\ mc.accumulateRuns
    /\ mc.prevNumRuns >= 1
    /\ Len(mc.events) = mc.prevNumRuns + mc.numRuns
    /\ \A r \in 1..Len(mc.events) : mc.events[r] # <<>>
    /\ \E v \in 1..Len(mc.rest) : v # mc.variableSetIndex + 1 /\ mc.rest[v] # <<>>

\* C3: every chain of a monteCarloSimulation call that was not aborted has
\* event durations that sum to endTime.
C3_ChainsSumToEndTime ==
    mc.pc \in {"sample", "done"} =>
        \A r \in (mc.prevNumRuns + 1)..Len(mc.events) :
            ChainDuration(mc.events[r]) = mc.endTime

\* C4: the P reconstructed from chains that each sum to endTime has rows that
\* sum to 1 and entries in [0, 1].
\* the step of lines 423-448 that adds an event and goes on with the chain
Selects == mc.pc = "cross" /\ mc'.pc = "chain" /\ mc'.eventChainDuration < mc.endTime

\* C23: any two consecutive events of a chain have different states, and the
\* state selected after an event is one the state of the event has a positive
\* rate to in the epoch in which the event ended
C23_NextStateDiffers ==
    /\ [](\A r \in 1..Len(mc.events) : \A k \in 1..(Len(mc.events[r]) - 1) :
             mc.events[r][k].state # mc.events[r][k + 1].state)
    /\ [][Selects => mc'.state \in Targets(mc, mc.epochIter, mc.state) \ {mc.state}]_vars

\* C23, for the grids that do not start before 0
C23_FromZeroOn ==
    /\ [](mc.time[0] >= 0 =>
             \A r \in 1..Len(mc.events) : \A k \in 1..(Len(mc.events[r]) - 1) :
                 mc.events[r][k].state # mc.events[r][k + 1].state)
    /\ [][(Selects /\ mc.time[0] >= 0)
             => mc'.state \in Targets(mc, mc.epochIter, mc.state) \ {mc.state}]_vars

\* a pass of the chain loop ends: the event is added to the chain
Emits == mc.pc = "cross" /\ mc'.pc \in {"chain", "run"}
\* a pass of the epoch-crossing loop that is followed by another test of it
Crosses == mc.pc = "cross" /\ mc'.pc = "cross" /\ mc'.abort = mc.abort

\* C30: with endTime > 0 every pass of the chain loop either adds the final
\* event of the chain or adds an event that takes the accumulated duration
\* strictly further, and every pass of the epoch-crossing loop moves the
\* epoch iterator on by one
C30_ChainProgress ==
    [][/\ Emits => \/ mc'.pc = "run"
                    \/ mc'.eventChainDuration > mc.eventChainDuration
       /\ Crosses => mc'.epochIter = mc.epochIter + 1]_vars

\* C30, for the grids that do not start before 0
C30_FromZeroOn ==
    [][mc.time[0] >= 0 =>
          /\ Emits => \/ mc'.pc = "run"
                       \/ mc'.eventChainDuration > mc.eventChainDuration
          /\ Crosses => mc'.epochIter = mc.epochIter + 1]_vars

\* C27: on a grid that does not start before 0 and ends after 0, whenever
\* the next state is selected the QT walked and the kout divided by are those
\* of the epoch the iterator is at, and that kout is not below epsilon
C27_SelectionOfOneEpoch ==
    [][(Selects /\ mc.time[0] >= 0 /\ mc.endTime > 0)
          => /\ mc'.QT = mc.epochIter
             /\ mc.kout = Kout(mc, mc.epochIter, mc.state)
             /\ ~BelowEps(mc.kout)]_vars

\* a state was selected in the second epoch or later, after an event in a
\* state that was never left in the epoch before and went on into this one
C27_Witness ==
    /\ mc.pc = "chain"
    /\ mc.time[0] >= 0
    /\ mc.endTime > 0
    /\ mc.eventChainDuration < mc.endTime
    /\ mc.epochChanged
    /\ mc.epochIter > 1
    /\ mc.epochIter <= Len(mc.epochs)
    /\ mc.QT = mc.epochIter
    /\ mc.events[mc.run + 1] # <<>>
    /\ Kout(mc, mc.epochIter - 1, Last(mc.events[mc.run + 1]).state) = 0
    /\ mc.state # Last(mc.events[mc.run + 1]).state

\* the length of the part of [a, b) that lies in [lo, hi)
Overlap(a, b, lo, hi) ==
    LET from == IF a > lo THEN a ELSE lo
        to == IF b < hi THEN b ELSE hi
    IN  IF to > from THEN to - from ELSE 0

\* the time the events from event k on, the first starting at eventStart,
\* spend in state s within [lo, hi)
RECURSIVE TimeInState(_, _, _, _, _, _)
TimeInState(chain, k, eventStart, s, lo, hi) ==
    IF k > Len(chain) THEN 0
    ELSE (IF chain[k].state = s
          THEN Overlap(eventStart, eventStart + chain[k].duration, lo, hi) ELSE 0)
         + TimeInState(chain, k + 1, eventStart + chain[k].duration, s, lo, hi)

RECURSIVE TimeInStateOver(_, _, _, _, _)
TimeInStateOver(chains, r, s, lo, hi) ==
    IF r > Len(chains) THEN 0
    ELSE TimeInState(chains[r], 1, 0, s, lo, hi) + TimeInStateOver(chains, r + 1, s, lo, hi)

SampleIntervalEnd(t) == IF t + 1 < Len0(mc.time) THEN mc.time[t + 1] ELSE mc.endTime

OverlapAverage(t, s) ==
    FracEq(mc.probability[t][s],
           Frac(TimeInStateOver(mc.events, 1, s, mc.time[t], SampleIntervalEnd(t)),
                Len(mc.events) * (SampleIntervalEnd(t) - mc.time[t])))

Sampled ==
    /\ mc.pc = "done"
    /\ mc.sampleRuns
    /\ ~mc.abort
    /\ mc.events # <<>>
    /\ \A r \in 1..Len(mc.events) : mc.events[r] # <<>>

\* C22: P[i][s] computed by getProbabilityFromEventChains is the time the
\* events of the chains spend in state s within the sample interval
\* [time[i], time[i + 1]) (time[N] being endTime), divided by the length of the
\* interval and by the number of chains, events before time[0] included
C22_OverlapAverage ==
    Sampled =>
        \A t \in DOMAIN mc.probability : \A s \in States :
            SampleIntervalEnd(t) > mc.time[t] => OverlapAverage(t, s)

\* C22, for the grids that do not start after 0
C22_StartNotAfterZero ==
    (Sampled /\ mc.time[0] <= 0) =>
        \A t \in DOMAIN mc.probability : \A s \in States :
            SampleIntervalEnd(t) > mc.time[t] => OverlapAverage(t, s)

C4_RowsSumToOne ==
    (/\ mc.pc = "done"
     /\ mc.sampleRuns
     /\ ~mc.abort
     /\ \A r \in 1..Len(mc.events) : ChainDuration(mc.events[r]) = mc.endTime) =>
        \A t \in DOMAIN mc.probability :
            /\ \A s \in States :
                  /\ Finite(mc.probability[t][s])
                  /\ ~FracLess(mc.probability[t][s], Whole(0))
                  /\ ~FracLess(Whole(1), mc.probability[t][s])
            /\ FracEq(RowSum(mc.probability[t]), Whole(1))

(***************************************************************************)
(* The condition matrices of StimulusClampProtocol::init (lines 609-696).  *)
(* A parsed matrix is a function of the row whose values are functions of  *)
(* the column; its rows may differ in length.  matlims and padmat are      *)
(* declared outside the source file: matlims raises the row and column     *)
(* count to those of a matrix, padmat fills the cells a matrix lacks with  *)
(* the default and removes none.                                           *)
(***************************************************************************)
Larger(a, b) == IF a >= b THEN a ELSE b

RowLengths(mat) == [r \in DOMAIN mat |-> Len0(mat[r])]

padmat(mat, rows, cols, default) ==
    LET RowLen(r) == IF r \in DOMAIN mat THEN Len0(mat[r]) ELSE 0
    IN [r \in 0..(Larger(rows, Len0(mat)) - 1) |->
           [c \in 0..(Larger(cols, RowLen(r)) - 1) |->
               IF r \in DOMAIN mat /\ c \in DOMAIN mat[r] THEN mat[r][c] ELSE default]]

\* the condition matrices of a Stimulus and of a SimulationsSummary
StimulusMatrices ==
    {"starts", "durations", "amplitudes", "onsetExprs", "offsetExprs", "repeats", "periods"}
SummaryMatrices ==
    {"exprXs", "exprYs", "startXs", "durationXs", "startYs", "durationYs"}

\* lines 653-675: the default of a matrix
PadDefault(field) ==
    CASE field \in {"weights", "repeats"} -> 1
      [] field \in {"onsetExprs", "offsetExprs", "exprXs", "exprYs"} -> ""
      [] OTHER -> 0

\* lines 636-651: matlims over the four matrices of the protocol and the seven
\* of each active Stimulus, from 1 x 1 on; no matrix of a summary is looked at
ConditionLimits(p) ==
    LET shapes == {RowLengths(m) : m \in {p.starts, p.durations, p.sampleIntervals, p.weights}}
                    \cup UNION {{RowLengths(p.stimuli[k][f]) : f \in StimulusMatrices} :
                                   k \in {i \in 1..Len(p.stimuli) : p.stimuli[i].active}}
        Greatest(S) == CHOOSE n \in S : \A m \in S : n >= m
    IN [rows |-> Greatest({1} \cup {Len0(m) : m \in shapes}),
        cols |-> Greatest({1} \cup UNION {{m[r] : r \in DOMAIN m} : m \in shapes})]

\* lines 652-682: every matrix of the protocol and of its active children padded
PadChild(child, fields, rows, cols) ==
    IF ~child.active THEN child
    ELSE [f \in DOMAIN child |->
             IF f \in fields THEN padmat(child[f], rows, cols, PadDefault(f))
             ELSE IF f \in {"firstPtX", "numPtsX", "firstPtY", "numPtsY"}
             THEN [r \in 0..(rows - 1) |-> [c \in 0..(cols - 1) |-> 0]]
             ELSE child[f]]

PadConditions(p, rows, cols) ==
    [p EXCEPT !.starts = padmat(p.starts, rows, cols, PadDefault("starts")),
              !.durations = padmat(p.durations, rows, cols, PadDefault("durations")),
              !.sampleIntervals =
                  padmat(p.sampleIntervals, rows, cols, PadDefault("sampleIntervals")),
              !.weights = padmat(p.weights, rows, cols, PadDefault("weights")),
              !.stimuli = [k \in 1..Len(p.stimuli) |->
                              PadChild(p.stimuli[k], StimulusMatrices, rows, cols)],
              !.summaries = [k \in 1..Len(p.summaries) |->
                                PadChild(p.summaries[k], SummaryMatrices, rows, cols)]]

\* floor(a / b) of line 693 for b # 0
FloorDiv(a, b) == IF b > 0 THEN a \div b ELSE (-a) \div (-b)

\* line 693: an infinite or undefined quotient has no int value, the
\* conversion yields whatever the build yields
NonFiniteAsInt == {-2, -1, 0, 1}

\* lines 684-696 for the cells in row-major order from cell j on: time and
\* endTime of each cell, converted[j] being what the conversion yields in a
\* cell whose sampleInterval is 0.  LinSpaced of a negative size throws, and
\* the cells from there on stay as resize made them.
RECURSIVE SampleTimes(_, _, _, _, _)
SampleTimes(p, rows, cols, converted, j) ==
    IF j >= rows * cols THEN <<>>
    ELSE LET start == p.starts[j \div cols][j % cols]
             duration == p.durations[j \div cols][j % cols]
             sampleInterval == p.sampleIntervals[j \div cols][j % cols]
             numSteps == IF sampleInterval = 0 THEN converted[j]
                         ELSE FloorDiv(duration, sampleInterval)
         IN IF 1 + numSteps < 0
            THEN [k \in 1..(rows * cols - j) |->
                     [time |-> <<>>, endTime |-> 0, thrown |-> TRUE]]
            ELSE <<[time |-> Grid(1 + numSteps, start, sampleInterval),
                    endTime |-> start + duration, thrown |-> FALSE]>>
                 \o SampleTimes(p, rows, cols, converted, j + 1)

CondIdle == [pc |-> "idle"]

\* lines 635-696 of StimulusClampProtocol::init
init ==
    /\ cond.pc = "call"
    /\ \E lim \in {ConditionLimits(cond.protocol)} :
         \E p \in {PadConditions(cond.protocol, lim.rows, lim.cols)} :
           \E converted \in [{j \in 0..(lim.rows * lim.cols - 1) :
                                 p.sampleIntervals[j \div lim.cols][j % lim.cols] = 0}
                               -> NonFiniteAsInt] :
             \E cells \in {SampleTimes(p, lim.rows, lim.cols, converted, 0)} :
                cond' = [pc |-> "done", given |-> cond.protocol, protocol |-> p,
                         rows |-> lim.rows, cols |-> lim.cols,
                         simulations |->
                             [r \in 0..(lim.rows - 1) |->
                                 [c \in 0..(lim.cols - 1) |-> cells[r * lim.cols + c + 1]]]]

\* the cells of the grid after init, as <<row, column>>
GridCells == {<<r, c>> : r \in 0..(cond.rows - 1), c \in 0..(cond.cols - 1)}

\* C11: after init, in every cell of the grid, padded cells included, the time
\* vector has N = 1 + floor(duration / sampleInterval) >= 1 points, starts at
\* starts[r][c], steps by sampleInterval, is strictly increasing, and endTime
\* is start + duration.
C11_TimeVector ==
    cond.pc = "done" =>
        \A cell \in GridCells :
            LET s == cond.simulations[cell[1]][cell[2]]
                start == cond.protocol.starts[cell[1]][cell[2]]
                duration == cond.protocol.durations[cell[1]][cell[2]]
                sampleInterval == cond.protocol.sampleIntervals[cell[1]][cell[2]]
            IN /\ Len0(s.time) >= 1
               /\ sampleInterval # 0 => Len0(s.time) = 1 + FloorDiv(duration, sampleInterval)
               /\ s.time[0] = start
               /\ \A i \in DOMAIN s.time : s.time[i] = start + i * sampleInterval
               /\ Increasing(s.time)
               /\ s.endTime = start + duration

\* the row lengths of the matrices of the protocol and of its active children
ConditionShapes(p) ==
    {RowLengths(m) : m \in {p.starts, p.durations, p.sampleIntervals, p.weights}}
      \cup UNION {{RowLengths(p.stimuli[k][f]) : f \in StimulusMatrices} :
                     k \in {i \in 1..Len(p.stimuli) : p.stimuli[i].active}}
      \cup UNION {{RowLengths(p.summaries[k][f]) : f \in SummaryMatrices} :
                     k \in {i \in 1..Len(p.summaries) : p.summaries[i].active}}

\* C12: after init the grid has the greatest row count and the greatest column
\* count over the condition matrices of the protocol and of its active
\* stimuli and summaries, and each of these matrices is exactly rows x cols.
C12_GridIsMaximum ==
    cond.pc = "done" =>
        /\ \A m \in ConditionShapes(cond.given) :
              /\ Len0(m) <= cond.rows
              /\ \A r \in DOMAIN m : m[r] <= cond.cols
        /\ \A m \in ConditionShapes(cond.protocol) :
              /\ Len0(m) = cond.rows
              /\ \A r \in DOMAIN m : m[r] = cond.cols

(***************************************************************************)
(* StimulusClampProtocolSimulator::runSimulation (lines 1071-1354) and the *)
(* tasks it hands to QtConcurrent::run.  The session holds the unique      *)
(* epochs RunEpochs and the simulations Cells; run.epochsOf[c] are the     *)
(* unique epochs the epochs of simulation c point to.  A task is queued by *)
(* its launch, starts at any later time on a thread of the pool, and runs  *)
(* from one polling point of the abort flag to the next in one step.  An   *)
(* exception that leaves a task is kept by its future and thrown again by  *)
(* waitForFinished.                                                        *)
(***************************************************************************)
RunEpochs == {1, 2}
Cells == {1, 2}
Methods == {"Eigen Solver", "Monte Carlo"}

TaskIds == {<<"spectralExpansion", e>> : e \in RunEpochs} \cup {<<"simulation", c>> : c \in Cells}

NoTask == [pc |-> "none", at |-> 0, startedAborted |-> FALSE, wrote |-> FALSE]

RunIdle ==
    [pc |-> "idle", method |-> "Eigen Solver", numVariableSets |-> 1,
     epochsOf |-> [c \in Cells |-> {}], variableSetIndex |-> 0, index |-> 1,
     futures |-> <<>>, tasks |-> [id \in TaskIds |-> NoTask],
     abort |-> FALSE, message |-> "", raised |-> FALSE]

\* the polling points a task passes before it is through: lines 46, 53 and 58
\* of spectralExpansion, the loop heads of the simulations (lines 306 and
\* 317, 355 and 381)
PollingPoints(id) == IF id[1] = "spectralExpansion" THEN 1..3 ELSE 1..2

\* a catch block that only leaves
CaughtQuietly(r, text) == [r EXCEPT !.pc = "thrown"]

\* lines 1345-1352: the error is kept and the run ends
Caught(r, text) == [r EXCEPT !.abort = TRUE, !.message = text, !.pc = "thrown"]

\* a wait that returns at once
AwaitedAtOnce(task) == TRUE

\* QFuture::waitForFinished returns once the task is through
Awaited(task) == task.pc \in {"finished", "failed"}

\* line 1071
Run_Call ==
    /\ run.pc = "idle"
    /\ run' = [run EXCEPT !.pc = "epochs", !.variableSetIndex = 0, !.index = 1]

\* lines 1079-1102, one unique epoch: the provider is asked for the rates of
\* the epoch, which may throw, and the expansion of the epoch is launched
Run_Epoch ==
    /\ run.pc = "epochs"
    /\ IF run.index \notin RunEpochs \/ run.abort
       THEN run' = [run EXCEPT !.pc = "joinExpansions", !.index = 1]
       ELSE \/ run' = Caught([run EXCEPT !.raised = TRUE], "provider")
            \/ /\ run.method = "Eigen Solver"
               /\ run' = [run EXCEPT
                             !.tasks[<<"spectralExpansion", run.index>>] =
                                 [NoTask EXCEPT !.pc = "queued"],
                             !.futures = Append(@, <<"spectralExpansion", run.index>>),
                             !.index = @ + 1]
            \/ /\ run.method = "Monte Carlo"
               /\ run' = [run EXCEPT !.index = @ + 1]

\* lines 1103-1105 and 1125-1127: the futures are waited for in the order
\* of their launch and cleared
Run_Join ==
    /\ run.pc \in {"joinExpansions", "joinSimulations"}
    /\ IF run.index > Len(run.futures)
       THEN run' = [run EXCEPT
                       !.pc = IF run.pc = "joinExpansions" THEN "simulations"
                              ELSE "waveforms",
                       !.index = 1, !.futures = <<>>]
       ELSE /\ Awaited(run.tasks[run.futures[run.index]])
            /\ IF run.tasks[run.futures[run.index]].pc = "failed"
               THEN run' = Caught(run, "Undocumentded error.")
               ELSE run' = [run EXCEPT !.index = @ + 1]

\* lines 1110-1124, one simulation: break of the column loop under abort
Run_Simulation ==
    /\ run.pc = "simulations"
    /\ IF run.index \notin Cells
       THEN run' = [run EXCEPT !.pc = "joinSimulations", !.index = 1]
       ELSE IF run.abort
       THEN run' = [run EXCEPT !.index = @ + 1]
       ELSE run' = [run EXCEPT
                       !.tasks[<<"simulation", run.index>>] =
                           [NoTask EXCEPT !.pc = "queued"],
                       !.futures = Append(@, <<"simulation", run.index>>),
                       !.index = @ + 1]

\* lines 1130-1286, one simulation: its waveforms and summary values are
\* evaluated, which throws for a result of the wrong size; after the last
\* one the summaries are normalised and the next variable set is begun
Run_Waveforms ==
    /\ run.pc = "waveforms"
    /\ IF run.index \notin Cells
       THEN IF run.variableSetIndex + 1 < run.numVariableSets
            THEN run' = [run EXCEPT !.pc = "epochs", !.index = 1,
                                    !.variableSetIndex = @ + 1]
            ELSE run' = [run EXCEPT !.pc = "referenceData", !.index = 1]
       ELSE IF run.abort
       THEN run' = [run EXCEPT !.index = @ + 1]
       ELSE \/ run' = [run EXCEPT !.index = @ + 1]
            \/ run' = Caught([run EXCEPT !.raised = TRUE], "Invalid dimensions")

\* lines 1288-1344
Run_ReferenceData ==
    /\ run.pc = "referenceData"
    /\ run' = [run EXCEPT !.pc = "returned"]

\* the task begins: spectralExpansion throws for a model of fewer than two
\* states (line 44); a simulation sizes and zeroes its probability matrix
\* (lines 300-303) or sizes and clears its chains (lines 342-348) before it
\* looks at the abort flag
Task_Start ==
    \E id \in TaskIds :
        /\ run.tasks[id].pc = "queued"
        /\ \/ run' = [run EXCEPT !.tasks[id] =
                         [pc |-> "running", at |-> 1, startedAborted |-> run.abort,
                          wrote |-> (id[1] = "simulation")]]
           \/ /\ id[1] = "spectralExpansion"
              /\ run' = [run EXCEPT !.raised = TRUE,
                                    !.tasks[id] = [NoTask EXCEPT !.pc = "failed"]]

\* the task at a polling point: it returns if abort is set, else it works on
\* to the next polling point and writes its output, or throws
Task_Step ==
    \E id \in TaskIds :
        /\ run.tasks[id].pc = "running"
        /\ IF run.abort \/ run.tasks[id].at \notin PollingPoints(id)
           THEN run' = [run EXCEPT !.tasks[id].pc = "finished"]
           ELSE \/ run' = [run EXCEPT !.tasks[id].at = @ + 1,
                                      !.tasks[id].wrote = TRUE]
                \/ /\ id[1] = "simulation"
                   /\ run' = [run EXCEPT !.raised = TRUE,
                                         !.tasks[id].pc = "failed"]

\* StimulusClampProtocolSimulator::_abort (line 1436) while the run is on
Run_Abort ==
    /\ run.pc \notin {"idle", "returned", "thrown"}
    /\ ~run.abort
    /\ run' = [run EXCEPT !.abort = TRUE]

runSimulation ==
    \/ Run_Call \/ Run_Epoch \/ Run_Join \/ Run_Simulation \/ Run_Waveforms
    \/ Run_ReferenceData

Tasks == Task_Start \/ Task_Step

Unfinished(kind) == {id \in TaskIds : id[1] = kind /\ run.tasks[id].pc \in {"queued", "running"}}

\* C15: in every interleaving of runSimulation no simulation task has started
\* while a spectralExpansion task launched for the variable set is not
\* through, and the waveform and summary stage, and every later stage, is
\* entered only when every simulation task is through
C15_StageBarriers ==
    /\ (\E id \in TaskIds : id[1] = "simulation" /\ run.tasks[id].pc = "running")
           => Unfinished("spectralExpansion") = {}
    /\ run.pc \in {"waveforms", "referenceData", "returned"}
           => Unfinished("simulation") = {}
    /\ run.pc \in {"simulations", "joinSimulations"}
           => Unfinished("spectralExpansion") = {}

\* a simulation of the second variable set runs after both expansions of the
\* set wrote their matrices, the other simulation not yet started
C15_Witness ==
    /\ run.variableSetIndex = 1
    /\ run.pc = "joinSimulations"
    /\ run.tasks[<<"simulation", 1>>].pc = "running"
    /\ run.tasks[<<"simulation", 2>>].pc = "queued"
    /\ \A e \in RunEpochs :
           /\ run.tasks[<<"spectralExpansion", e>>].pc = "finished"
           /\ run.tasks[<<"spectralExpansion", e>>].wrote

\* the objects a task changes while it runs: spectralExpansion its epoch's
\* eigenvalues and matrices (lines 55-62); a simulation its Simulation
\* (probability, events, random number generator), and monteCarloSimulation
\* also calls the lifetime distributions of the unique epochs of its
\* Simulation through their operator(), which is not const (lines 398, 414)
Writes(id) ==
    IF id[1] = "spectralExpansion"
    THEN {<<"UniqueEpoch", id[2], "spectral">>}
    ELSE {<<"Simulation", id[2], "all">>}
         \cup IF run.method = "Monte Carlo"
              THEN {<<"UniqueEpoch", e, "randomStateLifetimes">> : e \in run.epochsOf[id[2]]}
              ELSE {}

\* the objects a task reads only: the rates of its epochs, and for
\* spectralSimulation their eigenvalues and matrices (lines 309-331)
Reads(id) ==
    IF id[1] = "spectralExpansion"
    THEN {<<"UniqueEpoch", id[2], "transitionRates">>}
    ELSE {<<"UniqueEpoch", e, "transitionRates">> : e \in run.epochsOf[id[2]]}
         \cup IF run.method = "Eigen Solver"
              THEN {<<"UniqueEpoch", e, "spectral">> : e \in run.epochsOf[id[2]]}
              ELSE {}

Running == {id \in TaskIds : run.tasks[id].pc = "running"}

\* C16: no object changed by a running task is read or changed by another
\* task running at the same time
C16_NoSharedMutableState ==
    \A a \in Running : \A b \in Running \ {a} :
        Writes(a) \cap (Writes(b) \cup Reads(b)) = {}

\* C16, the parts about the Simulations and the spectral fields alone
C16_OwnedParts ==
    \A a \in Running : \A b \in Running \ {a} :
        {o \in Writes(a) : o[3] \in {"all", "spectral"}} \cap (Writes(b) \cup Reads(b)) = {}

\* C17: a running task that meets its polling point with abort set returns
\* there and does nothing else
C17_ReturnsAtPoll ==
    [][\A id \in TaskIds :
          (run.tasks[id].pc = "running" /\ run.abort /\ run'.tasks[id] # run.tasks[id])
              => run'.tasks[id] = [run.tasks[id] EXCEPT !.pc = "finished"]]_vars

\* C17: a simulation task that starts when abort is set writes no output
C17_NoOutputAfterAbort ==
    \A id \in TaskIds :
        (id[1] = "simulation" /\ run.tasks[id].startedAborted) => ~run.tasks[id].wrote

\* C17: under fair scheduling a run that was called returns, or throws
C17_EventuallyReturns == (run.pc # "idle") ~> (run.pc \in {"returned", "thrown"})

StageOf(pc) ==
    CASE pc \in {"epochs", "joinExpansions"} -> "unique epochs"
      [] pc \in {"simulations", "joinSimulations"} -> "simulations"
      [] OTHER -> pc

\* C18: an error raised in the run or in one of its tasks ends the run with
\* abort set and a message that is not empty; once it is raised the run
\* enters no further stage and no further variable set, and it never returns
\* as if nothing had happened
C18_ErrorsCaptured ==
    /\ [](run.pc = "thrown" => (run.abort /\ run.message # ""))
    /\ [](run.raised => run.pc # "returned")
    /\ [][run.raised =>
             \/ run'.pc = "thrown"
             \/ /\ StageOf(run'.pc) = StageOf(run.pc)
                /\ run'.variableSetIndex = run.variableSetIndex]_vars
    /\ (run.raised ~> (run.pc = "thrown"))

\* a simulation task of the second variable set threw, the run waited for
\* it and ended with the message of the catch block
C18_Witness ==
    /\ run.pc = "thrown"
    /\ run.variableSetIndex = 1
    /\ run.message = "Undocumentded error."
    /\ run.tasks[<<"simulation", 2>>].pc = "failed"
    /\ run.tasks[<<"simulation", 1>>].pc = "finished"

(***************************************************************************)
(* The normalisation of the summaries in runSimulation (lines 1274-1285):  *)
(* dataY of an active summary, one row per row of the condition grid, is   *)
(* divided by the largest absolute value of each row or of the matrix.     *)
(* A value is a fraction; a zero denominator stands for the NaN or         *)
(* infinity that the floating-point division by zero gives.                *)
(***************************************************************************)
Normalizations == {"None", "PerRow", "AllRows"}
SummaryValues == {-2, 0, 1}

SmIdle == [pc |-> "idle", normalization |-> "None", dataY |-> <<>>, given |-> <<>>]

\* rows.array().abs().maxCoeff()
MaxAbsCoeff(rows) ==
    LET S == {Abs(rows[r][c].num) : r \in DOMAIN rows, c \in {1, 2}}
    IN  Whole(CHOOSE m \in S : \A x \in S : x <= m)

\* rows /= q
DivideRows(rows, q) == [r \in DOMAIN rows |-> [c \in DOMAIN rows[r] |-> FracDiv(rows[r][c], q)]]

\* lines 1278-1283
NormalizedSummary(dataY, normalization) ==
    CASE normalization = "PerRow" ->
             [r \in DOMAIN dataY |-> DivideRows(<<dataY[r]>>, MaxAbsCoeff(<<dataY[r]>>))[1]]
      [] normalization = "AllRows" -> DivideRows(dataY, MaxAbsCoeff(dataY))
      [] OTHER -> dataY

normalizeSummary ==
    /\ sm.pc = "call"
    /\ sm' = [sm EXCEPT !.pc = "done", !.dataY = NormalizedSummary(sm.dataY, sm.normalization)]

SameValues(a, b) == \A c \in DOMAIN a : Finite(a[c]) /\ FracEq(a[c], b[c])

\* C19: the normalisation of a summary leaves every value finite; under
\* PerRow a row whose largest absolute value is 0 is as it was, under AllRows
\* a matrix whose largest absolute value is 0 is as it was
C19_ZeroDenominatorIsOne ==
    sm.pc = "done" =>
        /\ \A r \in DOMAIN sm.dataY : \A c \in DOMAIN sm.dataY[r] : Finite(sm.dataY[r][c])
        /\ sm.normalization = "PerRow" =>
               \A r \in DOMAIN sm.given :
                   MaxAbsCoeff(<<sm.given[r]>>).num = 0 => SameValues(sm.dataY[r], sm.given[r])
        /\ (sm.normalization = "AllRows" /\ MaxAbsCoeff(sm.given).num = 0) =>
               \A r \in DOMAIN sm.given : SameValues(sm.dataY[r], sm.given[r])

\* C19, for the summaries that have a value other than 0 in every row
C19_NonZeroRows ==
    (sm.pc = "done" /\ \A r \in DOMAIN sm.given : MaxAbsCoeff(<<sm.given[r]>>).num # 0) =>
        \A r \in DOMAIN sm.dataY : \A c \in DOMAIN sm.dataY[r] : Finite(sm.dataY[r][c])

(***************************************************************************)
(* spectralExpansion (lines 41-63) and Simulation::spectralSimulation      *)
(* (lines 296-337) for a model of two states.  Q = [-a a; b -b] is held as *)
(* <<a, b>>; probabilities are exact fractions.  exp is taken at whole     *)
(* arguments n <= 0 only and kept as base^n for a base that stands for e:  *)
(* the sums of the rows do not depend on it.                               *)
(***************************************************************************)
RECURSIVE Gcd(_, _)
Gcd(a, b) == IF b = 0 THEN a ELSE Gcd(b, a % b)

Lowest(q) ==
    LET g == Gcd(Abs(q.num), Abs(q.den))
    IN  IF g = 0 THEN q ELSE Frac(q.num \div g, q.den \div g)

VecSum(u, v) == <<Lowest(FracAdd(u[1], v[1])), Lowest(FracAdd(u[2], v[2]))>>
VecScale(v, q) == <<Lowest(FracMul(v[1], q)), Lowest(FracMul(v[2], q))>>
\* p * A
VecMat(p, A) ==
    VecSum(<<FracMul(p[1], A[1][1]), FracMul(p[1], A[1][2])>>,
           <<FracMul(p[2], A[2][1]), FracMul(p[2], A[2][2])>>)

\* exp(n) for n <= 0
ExpOf(n, base) == Frac(1, base ^ (0 - n))

UnitMatrix(j) ==
    <<<<Whole(IF j = 1 THEN 1 ELSE 0), Whole(0)>>,
      <<Whole(0), Whole(IF j = 2 THEN 1 ELSE 0)>>>>

\* lines 45-62: eigenvalues in ascending order of their absolute value and
\* the matrices v_j * (row j of the inverse of V).  With a + b > 0 the
\* eigenvalues are 0 and -(a + b), with a = b = 0 both are 0, the
\* eigenvectors are the unit vectors, and std::sort leaves their order open
spectralExpansion(Q, tie) ==
    LET k == Q[1] + Q[2]
    IN  IF k = 0
        THEN [eigenValues |-> <<0, 0>>,
              matrices |-> <<UnitMatrix(tie), UnitMatrix(3 - tie)>>]
        ELSE [eigenValues |-> <<0, 0 - k>>,
              matrices |-> << <<<<Frac(Q[2], k), Frac(Q[1], k)>>,
                                <<Frac(Q[2], k), Frac(Q[1], k)>>>>,
                              <<<<Frac(Q[1], k), Frac(0 - Q[1], k)>>,
                                <<Frac(0 - Q[2], k), Frac(Q[2], k)>>>> >>]

\* lines 316-321 and 326-331: the sum over the states of
\* exp(lambda * tau) * (startingProbability * A)
SpectralSum(p, x, tau, base) ==
    VecSum(VecScale(VecMat(p, x.matrices[1]), ExpOf(x.eigenValues[1] * tau, base)),
           VecScale(VecMat(p, x.matrices[2]), ExpOf(x.eigenValues[2] * tau, base)))

\* the rows firstPt .. firstPt + numPts - 1 of P are given by row(i)
EpochBlock(P, epoch, p, x, s, constant) ==
    [i \in DOMAIN P |->
        IF i >= epoch.firstPt /\ i < epoch.firstPt + epoch.numPts
        THEN IF constant THEN p
             ELSE SpectralSum(p, x, s.time[i] - epoch.start, s.base)
        ELSE P[i]]

\* lines 305-335, from epoch k on
RECURSIVE Propagate(_, _, _, _)
Propagate(P, p, k, s) ==
    IF k > Len(s.epochs) THEN P
    ELSE LET epoch == s.epochs[k]
             x == spectralExpansion(s.rates[epoch.stimuli["V"]], s.tie)
         IN  IF k = 1 /\ s.startEquilibrated
             THEN Propagate(EpochBlock(P, epoch, VecMat(p, x.matrices[1]), x, s, TRUE),
                            VecMat(p, x.matrices[1]), k + 1, s)
             ELSE Propagate(EpochBlock(P, epoch, p, x, s, FALSE),
                            IF k < Len(s.epochs)
                            THEN SpectralSum(p, x, epoch.duration, s.base) ELSE p,
                            k + 1, s)

SsIdle ==
    [pc |-> "idle", time |-> <<>>, epochs |-> <<>>, rates |-> <<>>,
     startingProbability |-> <<>>, startEquilibrated |-> FALSE, tie |-> 1,
     base |-> 2, probability |-> <<>>]

\* lines 298-303 and the loop over the epochs, without abort
spectralSimulation ==
    /\ ss.pc = "call"
    /\ ss' = [ss EXCEPT
                 !.pc = "done",
                 !.probability =
                     Propagate([i \in DOMAIN ss.time |-> <<Whole(0), Whole(0)>>],
                               ss.startingProbability, 1, ss)]

\* lines 507-517: the sum of row i of P is 1
RowSumsToOne(P, i) == FracEq(FracAdd(P[i][1], P[i][2]), Whole(1))

\* C20: after a spectral simulation that was not aborted every row of the
\* probability matrix sums to 1, for one or more epochs, with or without
\* startEquilibrated
C20_RowsSumToOne ==
    ss.pc = "done" => \A i \in DOMAIN ss.probability : RowSumsToOne(ss.probability, i)

\* C20, when the run does not start equilibrated or the model has a
\* transition in the first epoch
C20_SimpleZeroEigenvalue ==
    (/\ ss.pc = "done"
     /\ \/ ~ss.startEquilibrated
        \/ ss.rates[ss.epochs[1].stimuli["V"]] # <<0, 0>>)
        => \A i \in DOMAIN ss.probability : RowSumsToOne(ss.probability, i)

(***************************************************************************)
(* Specifications.                                                         *)
(***************************************************************************)
SessionIdle ==
    /\ protocols = <<>>
    /\ uniqueEpochs = <<>>
    /\ heap = EmptyHeap
    /\ lastCost = NoCost

CoreIdle ==
    /\ sa = SaIdle
    /\ fr = FrIdle
    /\ wf = WfIdle
    /\ sim = SimIdle
    /\ mc = McIdle
    /\ SessionIdle

StagesIdle ==
    /\ cond = CondIdle
    /\ run = RunIdle
    /\ sm = SmIdle
    /\ ss = SsIdle

\* sampleArray on every pair of monotonic arrays within the bounds
InitSample ==
    /\ \E n \in 1..MaxN, nr \in 1..MaxNref, s \in Shifts :
          \E xs \in Arrays(n, Coords), xr \in Arrays(nr, Coords), yr \in Arrays(nr, YVals) :
              /\ Monotonic(xs)
              /\ Monotonic(xr)
              /\ sa = SaCall(xr, yr, xs, s)
    /\ fr = FrIdle
    /\ wf = WfIdle
    /\ sim = SimIdle
    /\ mc = McIdle
    /\ SessionIdle
    /\ StagesIdle
NextSample == sampleArray /\ UNCHANGED <<fr, wf, sim, mc, session, stages>>
SpecSample == InitSample /\ [][NextSample]_vars

\* findIndexesInRange on every increasing grid, start and stop within the bounds
InitRange ==
    /\ \E n \in 1..MaxN : \E t \in Arrays(n, Coords) :
          \E start \in (-1)..(MaxCoord + 1), stop \in (-1)..(MaxCoord + 1) :
              /\ Increasing(t)
              /\ fr = [FrIdle EXCEPT !.pc = "call", !.time = t, !.start = start, !.stop = stop]
    /\ sa = SaIdle
    /\ wf = WfIdle
    /\ sim = SimIdle
    /\ mc = McIdle
    /\ SessionIdle
    /\ StagesIdle
NextRange == findIndexesInRange /\ UNCHANGED <<sa, wf, sim, mc, session, stages>>
SpecRange == InitRange /\ [][NextRange]_vars

\* Stimulus::waveform on uniform grids
InitWaveform ==
    /\ \E n \in 1..MaxGridN, t0 \in {0, 1}, dt \in {1, 2} :
          \E start \in (-1)..3, duration \in 0..3, amplitude \in {-1, 0, 2},
             repeats \in 0..MaxRepeats, period \in {-1, 0, 1, 3},
             onsetExpr \in Exprs, offsetExpr \in {"", "t"} :
              wf = [WfIdle EXCEPT !.pc = "call", !.time = Grid(n, t0, dt),
                                  !.stimulus = Stimulus(start, duration, amplitude, repeats,
                                                        period, onsetExpr, offsetExpr)]
    /\ sa = SaIdle
    /\ fr = FrIdle
    /\ sim = SimIdle
    /\ mc = McIdle
    /\ SessionIdle
    /\ StagesIdle
NextWaveform == waveform /\ UNCHANGED <<sa, fr, sim, mc, session, stages>>
SpecWaveform == InitWaveform /\ [][NextWaveform]_vars

\* findEpochsDiscretizedToSamplePoints on every grid and every stimulus vectors
\* within the bounds; endTime = start + duration with
\* N = 1 + floor(duration / sampleInterval)
StimulusNames == {"V", "L"}
StimulusLevels == {0, 1}

InitEpochs ==
    /\ \E n \in 1..MaxGridN, t0 \in {-1, 0, 1}, dt \in {1, 2}, names \in SUBSET StimulusNames :
          \E rest \in 0..(dt - 1), st \in [names -> Arrays(n, StimulusLevels)] :
              sim = [SimIdle EXCEPT !.pc = "call", !.time = Grid(n, t0, dt),
                                    !.endTime = t0 + (n - 1) * dt + rest,
                                    !.stimuli = st]
    /\ sa = SaIdle
    /\ fr = FrIdle
    /\ wf = WfIdle
    /\ mc = McIdle
    /\ SessionIdle
    /\ StagesIdle
NextEpochs == findEpochsDiscretizedToSamplePoints /\ UNCHANGED <<sa, fr, wf, mc, session, stages>>
SpecEpochs == InitEpochs /\ [][NextEpochs]_vars

\* a constant condition matrix
Constant(rows, cols, v) == [r \in 0..(rows - 1) |-> [c \in 0..(cols - 1) |-> v]]
Square(start, duration, amplitude) == Stimulus(start, duration, amplitude, 1, 0, "", "")

\* a session of protocols that share the pool: one row of cols cells sampled
\* at 0, 1, 2, 3, a V pulse whose amplitude may grow with the column, and an L
\* pulse that is absent, inactive or active
InternProtocol(cols, vstart, step, lkind) ==
    LET V(c) == Square(vstart, 1, 1 + c * step)
    IN Protocol(Constant(1, cols, 0), Constant(1, cols, 3), Constant(1, cols, 1),
                Constant(1, cols, 1),
                <<[name |-> "V", active |-> TRUE, conditions |-> [r \in {0} |-> [c \in 0..(cols - 1) |-> V(c)]]]>>
                  \o (IF lkind = "absent" THEN <<>>
                      ELSE <<[name |-> "L", active |-> (lkind = "active"),
                              conditions |-> Constant(1, cols, Square(1, 1, 1))]>>),
                <<>>)

InternProtocols ==
    {InternProtocol(cols, vstart, step, lkind) :
        cols \in 1..MaxCols, vstart \in {0, 1}, step \in {0, 1},
        lkind \in {"absent", "inactive", "active"}}

InitIntern ==
    /\ \E np \in SessionSizes : protocols \in [1..np -> InternProtocols]
    /\ uniqueEpochs = <<>>
    /\ heap = EmptyHeap
    /\ lastCost = NoCost
    /\ sa = SaIdle
    /\ fr = FrIdle
    /\ wf = WfIdle
    /\ sim = SimIdle
    /\ mc = McIdle
    /\ StagesIdle
NextIntern == (initSimulation \/ cost) /\ UNCHANGED <<sa, fr, wf, sim, mc, stages>>
SpecIntern == InitIntern /\ [][NextIntern]_vars

\* one protocol of one cell sampled at 0, 1, .. with a V pulse and one
\* reference curve that rises or falls in x, covers the whole grid, a part
\* of it or nothing of it, and is shifted by x0
AlignCurves ==
    {[name |-> name, variableSetIndex |-> vs, rowIndex |-> 0, columnIndex |-> 0,
      columnPairsXY |-> <<[x |-> xr, y |-> [i \in DOMAIN xr |-> i + 1]]>>, x0 |-> x0,
      scale |-> 1, weight |-> 1, normalization |-> "None"] :
        name \in {"V", "S0"}, vs \in {0, 1},
        xr \in {Grid(2, 1, 1), Grid(3, 1, 1), Grid(3, 3, -1), Grid(2, 0, 3), Grid(2, 5, 1),
                Grid(3, 0, 2)},
        x0 \in {-1, 0, 1, 2}}

InitAlign ==
    /\ \E duration \in {1, 3, 4}, ref \in AlignCurves :
          protocols = <<Protocol(Constant(1, 1, 0), Constant(1, 1, duration),
                                 Constant(1, 1, 1), Constant(1, 1, 1),
                                 <<[name |-> "V", active |-> TRUE,
                                    conditions |-> Constant(1, 1, Square(1, 1, 1))]>>,
                                 <<ref>>)>>
    /\ uniqueEpochs = <<>>
    /\ heap = EmptyHeap
    /\ lastCost = NoCost
    /\ sa = SaIdle
    /\ fr = FrIdle
    /\ wf = WfIdle
    /\ sim = SimIdle
    /\ mc = McIdle
    /\ StagesIdle
NextAlign == (initSimulation \/ cost) /\ UNCHANGED <<sa, fr, wf, sim, mc, stages>>
SpecAlign == InitAlign /\ [][NextAlign]_vars

\* the properties of a protocol are edited between two calls of
\* initSimulation: init reads them anew (lines 609-623), and until then the
\* simulations are those of the call before
ReinitProtocols ==
    {InternProtocol(cols, 0, step, lkind) :
        cols \in {1, 2}, step \in {0, 1}, lkind \in {"absent", "active"}}

SetProperties ==
    /\ \E k \in 1..Len(protocols), q \in ReinitProtocols :
          /\ q.stimuli # protocols[k].stimuli
          /\ protocols' = [protocols EXCEPT
                               ![k] = [q EXCEPT !.stateNames = protocols[k].stateNames,
                                                !.simulations = protocols[k].simulations]]
    /\ UNCHANGED <<uniqueEpochs, heap, lastCost>>

\* sessions whose protocols are edited and initialised again and again
NextReinit == (initSimulation \/ SetProperties) /\ UNCHANGED <<sa, fr, wf, sim, mc, stages>>
InitReinit ==
    /\ \E np \in SessionSizes : protocols \in [1..np -> ReinitProtocols]
    /\ uniqueEpochs = <<>>
    /\ heap = EmptyHeap
    /\ lastCost = NoCost
    /\ sa = SaIdle
    /\ fr = FrIdle
    /\ wf = WfIdle
    /\ sim = SimIdle
    /\ mc = McIdle
    /\ StagesIdle
SpecReinit == InitReinit /\ [][NextReinit]_vars

\* a session of one protocol with one cell sampled at 0, 1, 2, a V pulse, a
\* mask pulse, a weight pulse and one reference curve
CostProtocol(vstart, vamp, mname, mactive, mstart, wactive, ref) ==
    Protocol(Constant(1, 1, 0), Constant(1, 1, 2), Constant(1, 1, 1), Constant(1, 1, 1),
             <<[name |-> "V", active |-> TRUE,
                conditions |-> Constant(1, 1, Square(vstart, 1, vamp))],
               [name |-> mname, active |-> mactive,
                conditions |-> Constant(1, 1, Square(mstart, 1, 1))],
               [name |-> "Weight", active |-> wactive,
                conditions |-> Constant(1, 1, Square(1, 1, 1))]>>,
             <<ref>>)

ReferenceCurves ==
    {[name |-> name, variableSetIndex |-> 0, rowIndex |-> 0, columnIndex |-> 0,
      columnPairsXY |-> <<[x |-> xr, y |-> yr]>>, x0 |-> x0, scale |-> 1, weight |-> w,
      normalization |-> "None"] :
        name \in {"V", "S0", "W"}, xr \in {Grid(3, 0, 1), Grid(2, 0, 2)},
        yr \in Arrays(3, {0, 1}) \cup Arrays(2, {0, 1}), x0 \in {0}, w \in {1, 2}}

InitCost ==
    /\ \E vstart \in {0, 1}, vamp \in {1}, mname \in {"mask", "Mask"},
          mactive \in BOOLEAN, mstart \in {0, 1, 2}, wactive \in BOOLEAN,
          ref \in ReferenceCurves :
          /\ Len0(ref.columnPairsXY[1].x) = Len0(ref.columnPairsXY[1].y)
          /\ protocols = <<CostProtocol(vstart, vamp, mname, mactive, mstart, wactive, ref)>>
    /\ uniqueEpochs = <<>>
    /\ heap = EmptyHeap
    /\ lastCost = NoCost
    /\ sa = SaIdle
    /\ fr = FrIdle
    /\ wf = WfIdle
    /\ sim = SimIdle
    /\ mc = McIdle
    /\ StagesIdle
NextCost == (initSimulation \/ cost) /\ UNCHANGED <<sa, fr, wf, sim, mc, stages>>
SpecCost == InitCost /\ [][NextCost]_vars

\* monteCarloSimulation on the simulation of a protocol cell: a grid of the
\* shape <<N, sampleInterval, endTime - time[N - 1]>> from time[0] on, the
\* epochs of one stimulus V with levels 0 and 1, and rates under which no
\* state, one state of one level or every state of one level is never left
McShapes == {<<1, 1, 0>>, <<1, 2, 1>>, <<2, 1, 0>>, <<2, 2, 1>>, <<3, 1, 0>>}
McStarts == {-2, 0, 2}
McLevels == {0, 1}
NeverLeft == {{}, {<<1, 1>>}, {<<0, 0>>, <<0, 1>>}}

InitMC ==
    /\ \E shape \in McShapes, t0 \in McStarts, stuck \in NeverLeft :
          \E V \in Arrays(shape[1], McLevels) :
              LET time == Grid(shape[1], t0, shape[2])
                  endTime == time[shape[1] - 1] + shape[3]
              IN /\ V[0] = 0
                 /\ mc = [McIdle EXCEPT
                             !.time = time, !.endTime = endTime,
                             !.epochs = FindEpochs(time, endTime, [name \in {"V"} |-> V]),
                             !.rates = [l \in McLevels |-> [s \in States |->
                                           IF <<l, s>> \in stuck THEN {}
                                           ELSE States \ {s}]]]
    /\ sa = SaIdle
    /\ fr = FrIdle
    /\ wf = WfIdle
    /\ sim = SimIdle
    /\ SessionIdle
    /\ StagesIdle
NextMC == (monteCarloSimulation \/ Abort) /\ UNCHANGED <<sa, fr, wf, sim, session, stages>>
SpecMC == InitMC /\ [][NextMC]_vars


\* init on a protocol with one Stimulus and one SimulationsSummary: matrices
\* of the shapes below (the lengths of their rows), each filled with one value
Filled(shape, v) == [r \in 0..(Len(shape) - 1) |-> [c \in 0..(shape[r + 1] - 1) |-> v]]
Shapes == {<<>>, <<1>>, <<2>>, <<1, 1>>, <<2, 1>>}

InitConditions ==
    /\ \E s1 \in {<<1>>, <<2>>, <<1, 1>>}, s2 \in {<<1>>, <<1, 1>>},
          s3 \in {<<>>, <<1>>, <<2>>}, s4 \in Shapes, s5 \in Shapes,
          start \in {0, 1}, duration \in {-3, -1, 0, 2}, sampleInterval \in {-1, 1, 2},
          stimulusActive \in BOOLEAN, summaryActive \in BOOLEAN :
          cond = [pc |-> "call",
                  protocol |->
                      [starts |-> Filled(s1, start), durations |-> Filled(s2, duration),
                       sampleIntervals |-> Filled(s3, sampleInterval),
                       weights |-> Filled(<<1>>, 1),
                       stimuli |-> <<[active |-> stimulusActive,
                                      starts |-> Filled(<<1>>, 0),
                                      durations |-> Filled(<<1>>, 1),
                                      amplitudes |-> Filled(s4, 1),
                                      onsetExprs |-> <<>>, offsetExprs |-> <<>>,
                                      repeats |-> Filled(<<1>>, 1),
                                      periods |-> Filled(<<1>>, 0)]>>,
                       summaries |-> <<[active |-> summaryActive,
                                        exprXs |-> Filled(s5, "t"),
                                        exprYs |-> Filled(<<1>>, "S0"),
                                        startXs |-> Filled(<<1>>, 0),
                                        durationXs |-> Filled(<<1>>, 1),
                                        startYs |-> Filled(<<1>>, 0),
                                        durationYs |-> Filled(<<1>>, 1),
                                        firstPtX |-> <<>>, numPtsX |-> <<>>,
                                        firstPtY |-> <<>>, numPtsY |-> <<>>]>>]]
    /\ CoreIdle
    /\ run = RunIdle
    /\ sm = SmIdle
    /\ ss = SsIdle
NextConditions == init /\ UNCHANGED <<sa, fr, wf, sim, mc, session, run, sm, ss>>
SpecConditions == InitConditions /\ [][NextConditions]_vars


\* a session whose protocols hold two reference curves for the V buffer, of
\* one or of two variable sets, and an absent or active Weight pulse
WeightedCurves ==
    {[name |-> "V", variableSetIndex |-> v, rowIndex |-> 0, columnIndex |-> 0,
      columnPairsXY |-> <<[x |-> Grid(3, 0, 1), y |-> yr]>>, x0 |-> 0, scale |-> 1,
      weight |-> w, normalization |-> "None"] :
        v \in {0, 1}, yr \in {Grid(3, 0, 0), Grid(3, 1, 0), Grid(3, 0, 1)}, w \in {1, 2}}

InitWeights ==
    /\ \E np \in SessionSizes :
          \E wactive \in BOOLEAN, ref1 \in WeightedCurves, ref2 \in WeightedCurves,
             tail \in [2..np -> {<<2, 1>>, <<1, 2>>}] :
             protocols =
                 [n \in 1..np |->
                     IF n = 1
                     THEN [CostProtocol(0, 1, "mask", FALSE, 0, wactive, ref1)
                              EXCEPT !.referenceData = <<ref1, ref2>>]
                     ELSE CostProtocol(1, 1, "mask", FALSE, 0, TRUE,
                                       [ref1 EXCEPT !.weight = tail[n][1],
                                                    !.scale = tail[n][2]])]
    /\ uniqueEpochs = <<>>
    /\ heap = EmptyHeap
    /\ lastCost = NoCost
    /\ sa = SaIdle
    /\ fr = FrIdle
    /\ wf = WfIdle
    /\ sim = SimIdle
    /\ mc = McIdle
    /\ StagesIdle
NextWeights == (initSimulation \/ cost \/ simulatorCost) /\ UNCHANGED <<sa, fr, wf, sim, mc, stages>>
SpecWeights == InitWeights /\ [][NextWeights]_vars

\* calls of monteCarloSimulation on the two variable sets of a model, for a
\* simulation sampled at 0 and 1 with endTime 2 and two epochs
InitAccumulate ==
    /\ \E V \in {Grid(2, 0, 1), Grid(2, 0, 0)} :
          mc = [McIdle EXCEPT
                   !.numVariableSets = 2,
                   !.time = Grid(2, 0, 1), !.endTime = 2,
                   !.epochs = FindEpochs(Grid(2, 0, 1), 2, [name \in {"V"} |-> V]),
                   !.rates = [l \in McLevels |-> [s \in States |-> States \ {s}]]]
    /\ sa = SaIdle
    /\ fr = FrIdle
    /\ wf = WfIdle
    /\ sim = SimIdle
    /\ SessionIdle
    /\ StagesIdle
NextAccumulate == (monteCarloSimulation \/ Abort) /\ UNCHANGED <<sa, fr, wf, sim, session, stages>>
SpecAccumulate == InitAccumulate /\ [][NextAccumulate]_vars

\* the calls of SpecAccumulate, and after a call that returned on abort
\* another simulator that calls again
NextResume ==
    (monteCarloSimulation \/ Abort \/ NewSimulator)
        /\ UNCHANGED <<sa, fr, wf, sim, session, stages>>
SpecResume == InitAccumulate /\ [][NextResume]_vars

\* runs of runSimulation with either method, one or two variable sets, the
\* two simulations sharing their unique epochs or not, and abort at any time
InitRun ==
    /\ \E method \in Methods, numVariableSets \in {1, 2},
          epochsOf \in {[c \in Cells |-> RunEpochs], [c \in Cells |-> {c}]} :
          run = [RunIdle EXCEPT !.method = method,
                                !.numVariableSets = numVariableSets,
                                !.epochsOf = epochsOf]
    /\ cond = CondIdle
    /\ sm = SmIdle
    /\ ss = SsIdle
    /\ CoreIdle
NextRun == (runSimulation \/ Tasks \/ Run_Abort) /\ UNCHANGED <<sa, fr, wf, sim, mc, session, cond, sm, ss>>
SpecRun == InitRun /\ [][NextRun]_vars

\* the thread of runSimulation and the threads of the pool are scheduled
\* again and again; nobody has to press the abort button
SpecRunFair ==
    /\ SpecRun
    /\ WF_vars(runSimulation /\ UNCHANGED <<sa, fr, wf, sim, mc, session, cond, sm, ss>>)
    /\ WF_vars(Tasks /\ UNCHANGED <<sa, fr, wf, sim, mc, session, cond, sm, ss>>)

\* the normalisation of every two by two summary over SummaryValues
InitSummary ==
    /\ \E normalization \in Normalizations,
          dataY \in [{1, 2} -> [{1, 2} -> {Whole(v) : v \in SummaryValues}]] :
          sm = [pc |-> "call", normalization |-> normalization,
                dataY |-> dataY, given |-> dataY]
    /\ cond = CondIdle
    /\ run = RunIdle
    /\ ss = SsIdle
    /\ CoreIdle
NextSummary == normalizeSummary /\ UNCHANGED <<sa, fr, wf, sim, mc, session, cond, run, ss>>
SpecSummary == InitSummary /\ [][NextSummary]_vars

\* spectral simulations on a grid of four samples with one, two or three
\* epochs, the rates of the model drawn for each level of the stimulus
InitSpectral ==
    /\ \E V \in {Grid(4, 0, 0), [i \in 0..3 |-> IF i < 2 THEN 0 ELSE 1],
                  [i \in 0..3 |-> IF i \in {1, 2} THEN 1 ELSE 0]},
          rates \in [McLevels -> {<<0, 0>>, <<1, 1>>, <<0, 1>>, <<1, 0>>}],
          startingProbability \in {<<Whole(1), Whole(0)>>, <<Frac(1, 2), Frac(1, 2)>>,
                                   <<Frac(1, 4), Frac(3, 4)>>},
          startEquilibrated \in BOOLEAN, tie \in {1, 2}, base \in {2, 3} :
          ss = [pc |-> "call", time |-> Grid(4, 0, 1),
                epochs |-> FindEpochs(Grid(4, 0, 1), 4, [name \in {"V"} |-> V]),
                rates |-> rates, startingProbability |-> startingProbability,
                startEquilibrated |-> startEquilibrated, tie |-> tie, base |-> base,
                probability |-> <<>>]
    /\ cond = CondIdle
    /\ run = RunIdle
    /\ sm = SmIdle
    /\ CoreIdle
NextSpectral == spectralSimulation /\ UNCHANGED <<sa, fr, wf, sim, mc, session, cond, run, sm>>
SpecSpectral == InitSpectral /\ [][NextSpectral]_vars

\* calls of monteCarloSimulation on grids of two or three samples that start
\* before, at or after 0 and end after 0, the stimulus changing or not
ChainShapes == {<<2, 1, 2>>, <<2, 2, 1>>, <<3, 1, 1>>}
ChainStarts == {-2, 0, 1}

InitChain ==
    /\ \E shape \in ChainShapes, t0 \in ChainStarts, stuck \in NeverLeft :
          \E V \in Arrays(shape[1], McLevels) :
              LET time == Grid(shape[1], t0, shape[2])
                  endTime == time[shape[1] - 1] + shape[3]
              IN /\ V[0] = 0
                 /\ endTime > 0
                 /\ mc = [McIdle EXCEPT
                             !.time = time, !.endTime = endTime,
                             !.epochs = FindEpochs(time, endTime, [name \in {"V"} |-> V]),
                             !.rates = [l \in McLevels |-> [s \in States |->
                                           IF <<l, s>> \in stuck THEN {}
                                           ELSE States \ {s}]]]
    /\ sa = SaIdle
    /\ fr = FrIdle
    /\ wf = WfIdle
    /\ sim = SimIdle
    /\ SessionIdle
    /\ StagesIdle
NextChain == (monteCarloSimulation \/ Abort) /\ UNCHANGED <<sa, fr, wf, sim, session, stages>>
SpecChain == InitChain /\ [][NextChain]_vars

\* one protocol of one cell sampled at 0, 1, 2, 3 with three Stimulus
\* children, each active or not, named V, L or one of the reserved names: a
\* pulse of 1 over [0, 3), a pulse of 1 over [1, 2), a pulse of 2 over [2, 3)
StimuliPulses == <<Square(0, 3, 1), Square(1, 1, 1), Square(2, 1, 2)>>

InitStimuli ==
    /\ \E names \in [1..3 -> {"V", "L", "weight", "Weight", "Mask"}],
          active \in [1..3 -> BOOLEAN] :
          protocols = <<Protocol(Constant(1, 1, 0), Constant(1, 1, 3), Constant(1, 1, 1),
                                 Constant(1, 1, 1),
                                 [k \in 1..3 |->
                                     [name |-> names[k], active |-> active[k],
                                      conditions |-> Constant(1, 1, StimuliPulses[k])]],
                                 <<>>)>>
    /\ uniqueEpochs = <<>>
    /\ heap = EmptyHeap
    /\ lastCost = NoCost
    /\ sa = SaIdle
    /\ fr = FrIdle
    /\ wf = WfIdle
    /\ sim = SimIdle
    /\ mc = McIdle
    /\ StagesIdle
NextStimuli == initSimulation /\ UNCHANGED <<sa, fr, wf, sim, mc, stages>>
SpecStimuli == InitStimuli /\ [][NextStimuli]_vars

\* the aligned reference curves of the session, as <<protocol, row, column,
\* variable set, name>>
StoredCurves ==
    UNION {UNION {UNION {UNION {{<<p, r, c, v, name>> :
               name \in DOMAIN protocols[p].simulations[r][c].referenceData[v]} :
             v \in 1..Len(protocols[p].simulations[r][c].referenceData)} :
           c \in DOMAIN protocols[p].simulations[r]} :
         r \in DOMAIN protocols[p].simulations} :
       p \in 1..Len(protocols)}
CellOf(at) == protocols[at[1]].simulations[at[2]][at[3]]
CurveAt(at) == CellOf(at).referenceData[at[4]][at[5]]

\* C29: every aligned reference curve that init stored has numPts > 0, a
\* window [firstPt, firstPt + numPts) inside the samples of the simulation and
\* a waveform of numPts values, and sim.weight has a value for every sample
C29_WindowsInside ==
    \A at \in StoredCurves :
        /\ CurveAt(at).numPts > 0
        /\ 0 <= CurveAt(at).firstPt
        /\ CurveAt(at).firstPt + CurveAt(at).numPts <= Len0(CellOf(at).time)
        /\ Len0(CurveAt(at).waveform) = CurveAt(at).numPts
        /\ Len0(CellOf(at).weight) = Len0(CellOf(at).time)

\* a curve is stored whose window starts after the first sample and ends
\* before the last one, and the cost over it was taken
C29_Witness ==
    /\ lastCost.protocol # 0
    /\ \E at \in StoredCurves :
          /\ CurveAt(at).firstPt > 0
          /\ CurveAt(at).numPts > 1
          /\ CurveAt(at).firstPt + CurveAt(at).numPts < Len0(CellOf(at).time)

\* the one reference curve of the one cell of protocol 1, and what the cost
\* would be with the buffer y
TheCell == protocols[1].simulations[0][0]
TheCurve == TheCell.referenceData[1][protocols[1].referenceData[1].name]
CostOver(y) == WeightedSquares(y, TheCell, TheCurve)
IsState(name) == \E k \in 1..Len(StateNames) : StateNames[k] = name
StateColumn(name) ==
    [i \in DOMAIN TheCell.time |->
        TheCell.probability[1][i][CHOOSE k \in 0..1 : StateNames[k + 1] = name]]
Costed ==
    /\ lastCost.protocol = 1
    /\ IsInitialised(protocols[1])
    /\ protocols[1].referenceData[1].name \in DOMAIN TheCell.referenceData[1]
    /\ TheCurve.numPts > 0

\* what the cost is when the name of the curve is not a state name
CostOfOtherNames(name) ==
    IF name \in DOMAIN TheCell.stimuli
    THEN FracEq(lastCost.value,
                CostOver([i \in DOMAIN TheCell.time |-> Whole(TheCell.stimuli[name][i])]))
    ELSE IF TheCell.waveforms # <<>> /\ name \in DOMAIN TheCell.waveforms[1]
    THEN FracEq(lastCost.value, CostOver(TheCell.waveforms[1][name]))
    ELSE FracEq(lastCost.value, Whole(0))

\* C25 as stated: for a curve named as a state the probability column of the
\* state is used, even if a stimulus or a waveform has the same name; for
\* another name the stimulus of that name, else the derived waveform of that
\* name; a name that matches none adds nothing to the cost
C25_BufferPrecedence ==
    Costed =>
        LET name == protocols[1].referenceData[1].name
        IN  IF IsState(name)
            THEN /\ TheCell.probability # <<>>
                 /\ FracEq(lastCost.value, CostOver(StateColumn(name)))
            ELSE CostOfOtherNames(name)

\* C25 amended: for a curve named as a state the probability column of the
\* state is used if the Simulation holds a probability matrix of the variable
\* set, and the curve adds nothing to the cost if it holds none, in both cases
\* whatever stimulus or waveform has the same name; the other names as stated
C25_BufferPrecedenceAmended ==
    Costed =>
        LET name == protocols[1].referenceData[1].name
        IN  IF IsState(name)
            THEN IF TheCell.probability # <<>>
                 THEN FracEq(lastCost.value, CostOver(StateColumn(name)))
                 ELSE FracEq(lastCost.value, Whole(0))
            ELSE CostOfOtherNames(name)

\* the curve is named S0, the cell holds a probability matrix, a stimulus S0
\* and a waveform S0, and the cost is the one against the probability column,
\* which differs from the one against the stimulus and the waveform
C25_Witness ==
    /\ Costed
    /\ protocols[1].referenceData[1].name = "S0"
    /\ TheCell.probability # <<>>
    /\ "S0" \in DOMAIN TheCell.stimuli
    /\ TheCell.waveforms # <<>>
    /\ ~FracEq(lastCost.value,
               CostOver([i \in DOMAIN TheCell.time |-> Whole(TheCell.stimuli["S0"][i])]))
    /\ ~FracEq(lastCost.value, CostOver(TheCell.waveforms[1]["S0"]))
    /\ ~FracEq(lastCost.value, Whole(0))

\* a session after initSimulation and a run: one protocol of one cell sampled
\* at 0, 1, 2 with a V pulse and a pulse named S0 or L, one reference curve
\* named as a state, a stimulus, a waveform or nothing, the cell holding a
\* probability matrix or none and derived waveforms or none
SimulatedCell(cell, probability, waveforms) ==
    [cell EXCEPT
        !.probability =
            IF probability
            THEN <<[i \in DOMAIN cell.time |-> [s \in States |-> Frac(1, 2)]]>>
            ELSE <<>>,
        !.waveforms =
            IF waveforms
            THEN <<[name \in {"S0", "V", "W"} |-> [i \in DOMAIN cell.time |-> Whole(3)]]>>
            ELSE <<>>]

InitBuffers ==
    /\ \E sname \in {"S0", "L"}, rname \in {"S0", "S1", "V", "L", "W", "X"},
          yr \in {Grid(3, 0, 0), Grid(3, 1, 0), Grid(3, 0, 1)},
          probability \in BOOLEAN, waveforms \in BOOLEAN :
          \E r \in {ProtocolInit(
                        CostProtocol(0, 1, sname, TRUE, 1, FALSE,
                                     [name |-> rname, variableSetIndex |-> 0, rowIndex |-> 0,
                                      columnIndex |-> 0,
                                      columnPairsXY |-> <<[x |-> Grid(3, 0, 1), y |-> yr]>>,
                                      x0 |-> 0, scale |-> 1, weight |-> 2,
                                      normalization |-> "None"]),
                        <<>>, EmptyHeap)} :
              /\ protocols = <<[r.protocol EXCEPT
                                   !.simulations[0][0] =
                                       SimulatedCell(@, probability, waveforms)]>>
              /\ uniqueEpochs = r.pool
              /\ heap = r.heap
    /\ lastCost = NoCost
    /\ sa = SaIdle
    /\ fr = FrIdle
    /\ wf = WfIdle
    /\ sim = SimIdle
    /\ mc = McIdle
    /\ StagesIdle
NextBuffers == (initSimulation \/ cost) /\ UNCHANGED <<sa, fr, wf, sim, mc, stages>>
SpecBuffers == InitBuffers /\ [][NextBuffers]_vars

====
